---- MODULE Spec2Model ----
(***************************************************************************)
(* Cost accounting of shared_utils.llm_requests: the pricing tables, the   *)
(* price resolvers, the provider dispatcher and the ResponsePrice          *)
(* aggregate with its "+" and "+=" operators.                              *)
(*                                                                         *)
(* Python's float is IEEE-754 binary64: every arithmetic result is the     *)
(* exact result rounded to the nearest representable value, ties to even.  *)
(* The model keeps that rule and shortens the significand from 53 bits to  *)
(* Prec bits, so that rounding (and what it does to sums) is visible on    *)
(* small inputs.  A float is a record [m, e] denoting m * 2^e, with m = 0  *)
(* and e = 0, or 2^(Prec-1) <= |m| < 2^Prec.  Python ints are exact.       *)
(***************************************************************************)
EXTENDS Integers, Sequences, FiniteSets, TLC

\* Width of the significand of a float, in bits (53 in CPython).
Prec == 4

----------------------------------------------------------------------------
(* Floating-point arithmetic *)

RECURSIVE Pow2(_)
Pow2(n) == IF n <= 0 THEN 1 ELSE 2 * Pow2(n - 1)

Abs(n) == IF n < 0 THEN -n ELSE n

Sign(n) == IF n < 0 THEN -1 ELSE 1

Max(a, b) == IF a >= b THEN a ELSE b

\* Number of bits of a non-negative integer (0 for 0).
RECURSIVE BitLen(_)
BitLen(a) == IF a <= 0 THEN 0 ELSE 1 + BitLen(a \div 2)

FZero == [m |-> 0, e |-> 0]

\* q, or q + 1 when the remainder r is above half, or is half and q is odd.
NearestEven(q, r, half) ==
    IF r > half \/ (r = half /\ q % 2 = 1) THEN q + 1 ELSE q

\* The float sign * q * 2^e for 0 < q <= 2^Prec: a significand rounded up to
\* 2^Prec takes one more bit.
Carry(sign, q, e) ==
    IF q = Pow2(Prec)
    THEN [m |-> sign * Pow2(Prec - 1), e |-> e + 1]
    ELSE [m |-> sign * q, e |-> e]

\* The float nearest to sign * a * 2^e, ties to even, for a > 0 whose bit
\* length is Prec + k.
Scale(sign, a, e, k) ==
    IF k <= 0
    THEN [m |-> sign * a * Pow2(-k), e |-> e + k]
    ELSE Carry(sign,
               NearestEven(a \div Pow2(k), a % Pow2(k), Pow2(k - 1)),
               e + k)

\* The float nearest to n * 2^e, ties to even.
RoundNE(n, e) ==
    IF n = 0 THEN FZero
    ELSE Scale(Sign(n), Abs(n), e, BitLen(Abs(n)) - Prec)

\* The quotient q with one more bit, set when the remainder r is not zero.
Sticky(q, r) == 2 * q + (IF r = 0 THEN 0 ELSE 1)

\* The float nearest to (sign * a * 2^e) / d, the dividend taken s bits to
\* the left.
DivShifted(sign, a, e, d, s) ==
    RoundNE(sign * Sticky((a * Pow2(s)) \div d, (a * Pow2(s)) % d), e - s - 1)

\* The float nearest to (n * 2^e) / d, for an integer d > 0.  The quotient is
\* taken to Prec + 2 bits or more and its remainder kept as a sticky bit, so
\* the single rounding is that of the exact quotient.
DivRound(n, e, d) ==
    IF n = 0 THEN FZero
    ELSE DivShifted(Sign(n), Abs(n), e, d,
                    Max(0, BitLen(d) + Prec + 2 - BitLen(Abs(n))))

\* A decimal literal num/den of the source, as the float the compiler stores.
Dec(num, den) == DivRound(num, 0, den)

\* int -> float conversion.
FromInt(n) == RoundNE(n, 0)

\* hi + lo for floats other than 0 with hi.e >= lo.e.
Align(hi, lo) ==
    IF hi.e - lo.e > Prec + 1 THEN hi
    ELSE RoundNE(hi.m * Pow2(hi.e - lo.e) + lo.m, lo.e)

\* x + y
FAdd(x, y) ==
    IF x.m = 0 THEN y
    ELSE IF y.m = 0 THEN x
    ELSE IF x.e >= y.e THEN Align(x, y) ELSE Align(y, x)

\* x * y
FMul(x, y) == RoundNE(x.m * y.m, x.e + y.e)

\* n * x for an int n (the int converts exactly).
IntMulF(n, x) == RoundNE(n * x.m, x.e)

\* x / d for an int d > 0 (the int converts exactly).
FDivInt(x, d) == DivRound(x.m, x.e, d)

\* n / d for ints (true division).
IntDivInt(n, d) == DivRound(n, 0, d)

\* x > 0
FPos(x) == x.m > 0

\* x < 0
FNeg(x) == x.m < 0

\* int(x): truncation toward zero.
FTrunc(x) ==
    IF x.e >= 0 THEN x.m * Pow2(x.e)
    ELSE Sign(x.m) * (Abs(x.m) \div Pow2(-x.e))

----------------------------------------------------------------------------
(* Python values *)

\* None, where a float, a ModelPricing or a ResponsePrice is expected.
None == [none |-> TRUE]

\* None, where a str naming a model is expected (a str is a tuple of
\* one-character strings; no str has this element).
NoneName == <<"<None>">>

\* None, where a str naming a service tier or a provider is expected.
NoneStr == "<None>"

\* A function call ends by returning a value or by raising an exception.
Return(v) == [ok |-> TRUE, value |-> v]

Raise(type, message) == [ok |-> FALSE, error |-> type, msg |-> message]

gpt_5_1 == <<"g", "p", "t", "-", "5", ".", "1">>
gpt_5 == <<"g", "p", "t", "-", "5">>
gpt_5_mini == <<"g", "p", "t", "-", "5", "-", "m", "i", "n", "i">>
gpt_5_nano == <<"g", "p", "t", "-", "5", "-", "n", "a", "n", "o">>
gpt_5_pro == <<"g", "p", "t", "-", "5", "-", "p", "r", "o">>
gpt_4_1 == <<"g", "p", "t", "-", "4", ".", "1">>
gpt_4_1_mini == <<"g", "p", "t", "-", "4", ".", "1", "-", "m", "i", "n", "i">>
gpt_4_1_nano == <<"g", "p", "t", "-", "4", ".", "1", "-", "n", "a", "n", "o">>
whisper_1 == <<"w", "h", "i", "s", "p", "e", "r", "-", "1">>
gemini_3_pro_preview == <<"g", "e", "m", "i", "n", "i", "-", "3", "-", "p", "r", "o", "-", "p", "r", "e", "v", "i", "e", "w">>
gemini_3_flash_preview == <<"g", "e", "m", "i", "n", "i", "-", "3", "-", "f", "l", "a", "s", "h", "-", "p", "r", "e", "v", "i", "e", "w">>

----------------------------------------------------------------------------
(* types.py *)

\* ModelPricing(input, input_cached=None, output=None, currency="dollar",
\* currency_symbol="$")
ModelPricing(input, input_cached, output, currency, currency_symbol) ==
    [input |-> input, input_cached |-> input_cached, output |-> output,
     currency |-> currency, currency_symbol |-> currency_symbol]

\* ModelPricing with the default currency.
MP(input, input_cached, output) ==
    ModelPricing(input, input_cached, output, "dollar", "$")

\* ResponsePrice(...), quantity defaulting to 1 when the caller gives none.
ResponsePrice(input_price, input_cached_price, output_price, total_price, input_tokens, input_cached_tokens, output_tokens, input_pricing, input_cached_pricing, output_pricing, currency, currency_symbol, quantity) ==
    [input_price |-> input_price, input_cached_price |-> input_cached_price,
     output_price |-> output_price, total_price |-> total_price,
     input_tokens |-> input_tokens,
     input_cached_tokens |-> input_cached_tokens,
     output_tokens |-> output_tokens,
     input_pricing |-> input_pricing,
     input_cached_pricing |-> input_cached_pricing,
     output_pricing |-> output_pricing,
     currency |-> currency, currency_symbol |-> currency_symbol,
     quantity |-> quantity]

\* The default of the dataclass field quantity.
DefaultQuantity == 1

\* The divisor of the per-million rates.
PerMillion == 1000000

\* x or 0.0, for x a float or None
OrZero(x) == IF x = None \/ x.m = 0 THEN FZero ELSE x

\* A faulty from_tokens whose total leaves the cached cost out; C1 must tell
\* it from the code.
from_tokens_total_without_cached(model_pricing, input_tokens, input_cached_tokens, output_tokens) ==
    LET input_cost == FDivInt(IntMulF(input_tokens, model_pricing.input), PerMillion)
        input_cached_cost ==
            IF model_pricing.input_cached # None
            THEN FDivInt(IntMulF(input_cached_tokens, model_pricing.input_cached), PerMillion)
            ELSE FZero
        output_cost ==
            IF model_pricing.output # None
            THEN FDivInt(IntMulF(output_tokens, model_pricing.output), PerMillion)
            ELSE FZero
        total_cost == FAdd(input_cost, output_cost)
    IN  ResponsePrice(input_cost, input_cached_cost, output_cost, total_cost,
                      input_tokens, input_cached_tokens, output_tokens,
                      model_pricing.input,
                      OrZero(model_pricing.input_cached),
                      OrZero(model_pricing.output),
                      model_pricing.currency, model_pricing.currency_symbol,
                      DefaultQuantity)

\* A faulty from_tokens that prices output tokens at the input rate when the
\* record has no output rate; C7 must tell it from the code.
from_tokens_output_at_input_rate(model_pricing, input_tokens, input_cached_tokens, output_tokens) ==
    LET input_cost == FDivInt(IntMulF(input_tokens, model_pricing.input), PerMillion)
        input_cached_cost ==
            IF model_pricing.input_cached # None
            THEN FDivInt(IntMulF(input_cached_tokens, model_pricing.input_cached), PerMillion)
            ELSE FZero
        output_cost ==
            IF model_pricing.output # None
            THEN FDivInt(IntMulF(output_tokens, model_pricing.output), PerMillion)
            ELSE FDivInt(IntMulF(output_tokens, model_pricing.input), PerMillion)
        total_cost == FAdd(FAdd(input_cost, input_cached_cost), output_cost)
    IN  ResponsePrice(input_cost, input_cached_cost, output_cost, total_cost,
                      input_tokens, input_cached_tokens, output_tokens,
                      model_pricing.input,
                      OrZero(model_pricing.input_cached),
                      OrZero(model_pricing.output),
                      model_pricing.currency, model_pricing.currency_symbol,
                      DefaultQuantity)

\* A from_tokens that bills one output token more than the response used.
from_tokens_one_more_output_token(model_pricing, input_tokens, input_cached_tokens, output_tokens) ==
    LET input_cost == FDivInt(IntMulF(input_tokens, model_pricing.input), PerMillion)
        input_cached_cost ==
            IF model_pricing.input_cached # None
            THEN FDivInt(IntMulF(input_cached_tokens, model_pricing.input_cached), PerMillion)
            ELSE FZero
        output_cost ==
            IF model_pricing.output # None
            THEN FDivInt(IntMulF(output_tokens + 1, model_pricing.output), PerMillion)
            ELSE FZero
        total_cost == FAdd(FAdd(input_cost, input_cached_cost), output_cost)
    IN  ResponsePrice(input_cost, input_cached_cost, output_cost, total_cost,
                      input_tokens, input_cached_tokens, output_tokens,
                      model_pricing.input,
                      OrZero(model_pricing.input_cached),
                      OrZero(model_pricing.output),
                      model_pricing.currency, model_pricing.currency_symbol,
                      DefaultQuantity)

\* ResponsePrice.from_tokens
from_tokens(model_pricing, input_tokens, input_cached_tokens, output_tokens) ==
    LET input_cost == FDivInt(IntMulF(input_tokens, model_pricing.input), PerMillion)
        input_cached_cost ==
            IF model_pricing.input_cached # None
            THEN FDivInt(IntMulF(input_cached_tokens, model_pricing.input_cached), PerMillion)
            ELSE FZero
        output_cost ==
            IF model_pricing.output # None
            THEN FDivInt(IntMulF(output_tokens, model_pricing.output), PerMillion)
            ELSE FZero
        total_cost == FAdd(FAdd(input_cost, input_cached_cost), output_cost)
    IN  ResponsePrice(input_cost, input_cached_cost, output_cost, total_cost,
                      input_tokens, input_cached_tokens, output_tokens,
                      model_pricing.input,
                      OrZero(model_pricing.input_cached),
                      OrZero(model_pricing.output),
                      model_pricing.currency, model_pricing.currency_symbol,
                      DefaultQuantity)

\* A faulty from_duration that takes the rate per million seconds; C8 must
\* tell it from the code.
from_duration_per_million(model_pricing, duration_seconds) ==
    LET cost == FDivInt(FMul(duration_seconds, model_pricing.input), PerMillion)
    IN  ResponsePrice(cost, FZero, FZero, cost,
                      FTrunc(duration_seconds), 0, 0,
                      model_pricing.input, FZero, FZero,
                      model_pricing.currency, model_pricing.currency_symbol,
                      DefaultQuantity)

\* ResponsePrice.from_duration
from_duration(model_pricing, duration_seconds) ==
    LET cost == FMul(duration_seconds, model_pricing.input)
    IN  ResponsePrice(cost, FZero, FZero, cost,
                      FTrunc(duration_seconds), 0, 0,
                      model_pricing.input, FZero, FZero,
                      model_pricing.currency, model_pricing.currency_symbol,
                      DefaultQuantity)

CurrencyMessage(self, other) ==
    [text |-> "Impossible d'additionner des prix avec des devises differentes",
     self_currency |-> self.currency, other_currency |-> other.currency]

\* A faulty __add__ that keeps the input_tokens of self; C2 must tell it from
\* the code.
ResponsePrice_add_input_tokens_of_self(self, other) ==
    IF self.currency # other.currency
    THEN Raise("ValueError", CurrencyMessage(self, other))
    ELSE Return(ResponsePrice(
             FAdd(self.input_price, other.input_price),
             FAdd(self.input_cached_price, other.input_cached_price),
             FAdd(self.output_price, other.output_price),
             FAdd(self.total_price, other.total_price),
             self.input_tokens,
             self.input_cached_tokens + other.input_cached_tokens,
             self.output_tokens + other.output_tokens,
             self.input_pricing, self.input_cached_pricing, self.output_pricing,
             self.currency, self.currency_symbol,
             self.quantity + other.quantity))

\* A faulty __add__ that takes the three rates from other; C6 must tell it
\* from the code.
ResponsePrice_add_rates_of_other(self, other) ==
    IF self.currency # other.currency
    THEN Raise("ValueError", CurrencyMessage(self, other))
    ELSE Return(ResponsePrice(
             FAdd(self.input_price, other.input_price),
             FAdd(self.input_cached_price, other.input_cached_price),
             FAdd(self.output_price, other.output_price),
             FAdd(self.total_price, other.total_price),
             self.input_tokens + other.input_tokens,
             self.input_cached_tokens + other.input_cached_tokens,
             self.output_tokens + other.output_tokens,
             other.input_pricing, other.input_cached_pricing, other.output_pricing,
             self.currency, self.currency_symbol,
             self.quantity + other.quantity))

\* ResponsePrice.__add__: the value returned, or the exception raised.
ResponsePrice_add(self, other) ==
    IF self.currency # other.currency
    THEN Raise("ValueError", CurrencyMessage(self, other))
    ELSE Return(ResponsePrice(
             FAdd(self.input_price, other.input_price),
             FAdd(self.input_cached_price, other.input_cached_price),
             FAdd(self.output_price, other.output_price),
             FAdd(self.total_price, other.total_price),
             self.input_tokens + other.input_tokens,
             self.input_cached_tokens + other.input_cached_tokens,
             self.output_tokens + other.output_tokens,
             self.input_pricing, self.input_cached_pricing, self.output_pricing,
             self.currency, self.currency_symbol,
             self.quantity + other.quantity))

\* A faulty __iadd__ that adds other.input_price before the currency check; C3
\* must tell it from the code.
ResponsePrice_iadd_check_after_update(self, other) ==
    IF self.currency # other.currency
    THEN [ok |-> FALSE, error |-> "ValueError",
          msg |-> CurrencyMessage(self, other),
          self |-> [self EXCEPT !.input_price = FAdd(@, other.input_price)]]
    ELSE [ok |-> TRUE,
          self |-> [self EXCEPT
             !.input_price = FAdd(@, other.input_price),
             !.input_cached_price = FAdd(@, other.input_cached_price),
             !.output_price = FAdd(@, other.output_price),
             !.total_price = FAdd(@, other.total_price),
             !.input_tokens = @ + other.input_tokens,
             !.input_cached_tokens = @ + other.input_cached_tokens,
             !.output_tokens = @ + other.output_tokens,
             !.quantity = @ + other.quantity]]

\* A faulty __iadd__ that does not add other.total_price; C4 must tell it from
\* the code.
ResponsePrice_iadd_without_total(self, other) ==
    IF self.currency # other.currency
    THEN [ok |-> FALSE, error |-> "ValueError",
          msg |-> CurrencyMessage(self, other), self |-> self]
    ELSE [ok |-> TRUE,
          self |-> [self EXCEPT
             !.input_price = FAdd(@, other.input_price),
             !.input_cached_price = FAdd(@, other.input_cached_price),
             !.output_price = FAdd(@, other.output_price),
             !.input_tokens = @ + other.input_tokens,
             !.input_cached_tokens = @ + other.input_cached_tokens,
             !.output_tokens = @ + other.output_tokens,
             !.quantity = @ + other.quantity]]

\* A faulty __iadd__ that counts other as one call; C5 must tell it from the
\* code.
ResponsePrice_iadd_counts_one(self, other) ==
    IF self.currency # other.currency
    THEN [ok |-> FALSE, error |-> "ValueError",
          msg |-> CurrencyMessage(self, other), self |-> self]
    ELSE [ok |-> TRUE,
          self |-> [self EXCEPT
             !.input_price = FAdd(@, other.input_price),
             !.input_cached_price = FAdd(@, other.input_cached_price),
             !.output_price = FAdd(@, other.output_price),
             !.total_price = FAdd(@, other.total_price),
             !.input_tokens = @ + other.input_tokens,
             !.input_cached_tokens = @ + other.input_cached_tokens,
             !.output_tokens = @ + other.output_tokens,
             !.quantity = @ + DefaultQuantity]]

\* ResponsePrice.__iadd__: how the call ends, and in self the state in which
\* it leaves the object it was called on (the currency check is the first
\* statement, so a call that raises has assigned nothing).
ResponsePrice_iadd(self, other) ==
    IF self.currency # other.currency
    THEN [ok |-> FALSE, error |-> "ValueError",
          msg |-> CurrencyMessage(self, other), self |-> self]
    ELSE [ok |-> TRUE,
          self |-> [self EXCEPT
             !.input_price = FAdd(@, other.input_price),
             !.input_cached_price = FAdd(@, other.input_cached_price),
             !.output_price = FAdd(@, other.output_price),
             !.total_price = FAdd(@, other.total_price),
             !.input_tokens = @ + other.input_tokens,
             !.input_cached_tokens = @ + other.input_cached_tokens,
             !.output_tokens = @ + other.output_tokens,
             !.quantity = @ + other.quantity]]

\* round(x) of one argument: the int nearest to the float x, ties to even
FRound(x) ==
    IF x.e >= 0 THEN x.m * Pow2(x.e)
    ELSE Sign(x.m) * NearestEven(Abs(x.m) \div Pow2(-x.e), Abs(x.m) % Pow2(-x.e),
                                 Pow2(-x.e - 1))

\* x / y for floats, y # 0
FDiv(x, y) == DivRound(x.m * Sign(y.m), x.e - y.e, Abs(y.m))

\* Rendering: _format_human_readable, display, __str__.  A str is the tuple
\* of its characters.

Digits == <<"0", "1", "2", "3", "4", "5", "6", "7", "8", "9">>

\* str(n) for an int n >= 0, and for any int
RECURSIVE NatStr(_)
NatStr(n) ==
    IF n < 10 THEN <<Digits[n + 1]>>
    ELSE NatStr(n \div 10) \o <<Digits[(n % 10) + 1]>>

IntStr(n) == IF n < 0 THEN <<"-">> \o NatStr(-n) ELSE NatStr(n)

\* s with "0" added on the left up to `width` characters
RECURSIVE ZeroPad(_, _)
ZeroPad(s, width) == IF Len(s) >= width THEN s ELSE ZeroPad(<<"0">> \o s, width)

\* The int nearest to |value| * 10^decimal_places, ties to even: the digits
\* that the format specification .{decimal_places}f prints, which rounds the
\* exact binary value.  10^d is taken as 2^d * 5^d to keep the products small.
ScaledDigits(value, decimal_places) ==
    IF value.e >= 0
    THEN Abs(value.m) * Pow2(value.e) * 10^decimal_places
    ELSE IF decimal_places >= -value.e
    THEN Abs(value.m) * 5^decimal_places * Pow2(decimal_places + value.e)
    ELSE NearestEven(
             (Abs(value.m) * 5^decimal_places) \div Pow2(-value.e - decimal_places),
             (Abs(value.m) * 5^decimal_places) % Pow2(-value.e - decimal_places),
             Pow2(-value.e - decimal_places - 1))

\* The text of the scaled digits n: no point when decimal_places is 0.
FixedDigits(n, decimal_places) ==
    IF decimal_places = 0 THEN NatStr(n)
    ELSE NatStr(n \div 10^decimal_places) \o <<".">>
         \o ZeroPad(NatStr(n % 10^decimal_places), decimal_places)

\* f"{value:.{decimal_places}f}", decimal_places >= 0
Fixed(value, decimal_places) ==
    (IF value.m < 0 THEN <<"-">> ELSE <<>>)
    \o FixedDigits(ScaledDigits(value, decimal_places), decimal_places)

\* formatted.rstrip('0')
RECURSIVE RStripZeros(_)
RStripZeros(s) ==
    IF s # <<>> /\ s[Len(s)] = "0" THEN RStripZeros(SubSeq(s, 1, Len(s) - 1))
    ELSE s

\* if formatted.endswith('.'): formatted += '0'
EndWithDigit(formatted) ==
    IF formatted # <<>> /\ formatted[Len(formatted)] = "."
    THEN formatted \o <<"0">>
    ELSE formatted

\* format_price of _format_human_readable
format_price(value, decimal_places) ==
    EndWithDigit(RStripZeros(Fixed(value, decimal_places)))

\* A get_percentage that cuts the percentage down to an int instead of
\* rounding it.
get_percentage_truncating(value, total) ==
    IF total.m = 0 THEN <<"0", "%">>
    ELSE IntStr(FTrunc(FDiv(IntMulF(100, value), total))) \o <<"%">>

\* get_percentage of _format_human_readable
get_percentage(value, total) ==
    IF total.m = 0 THEN <<"0", "%">>
    ELSE IntStr(FRound(FDiv(IntMulF(100, value), total))) \o <<"%">>

\* The characters of a currency symbol.
SymbolStr(currency_symbol) ==
    IF currency_symbol = "$" THEN <<"$">>
    ELSE IF currency_symbol = "EUR" THEN <<"E", "U", "R">>
    ELSE <<"?">>

\* One element of parts: f"{symbol}{format_price(price)} ({label}, {percentage})"
Part(self, price, label, decimal_places) ==
    SymbolStr(self.currency_symbol) \o format_price(price, decimal_places)
    \o <<" ", "(">> \o label \o <<",", " ">>
    \o get_percentage(price, self.total_price) \o <<")">>

\* parts: the components whose price is > 0, in the order input, cached, output
Parts(self, decimal_places) ==
    (IF FPos(self.input_price)
     THEN <<Part(self, self.input_price, <<"i", "n", "p", "u", "t">>, decimal_places)>>
     ELSE <<>>)
    \o (IF FPos(self.input_cached_price)
        THEN <<Part(self, self.input_cached_price, <<"c", "a", "c", "h", "e", "d">>, decimal_places)>>
        ELSE <<>>)
    \o (IF FPos(self.output_price)
        THEN <<Part(self, self.output_price, <<"o", "u", "t", "p", "u", "t">>, decimal_places)>>
        ELSE <<>>)

\* " + ".join(parts)
RECURSIVE JoinPlus(_)
JoinPlus(parts) ==
    IF Len(parts) = 1 THEN parts[1]
    ELSE parts[1] \o <<" ", "+", " ">> \o JoinPlus(Tail(parts))

\* breakdown, with f"{symbol}0" when there is no part
Breakdown(self, parts) ==
    IF parts # <<>> THEN JoinPlus(parts)
    ELSE SymbolStr(self.currency_symbol) \o <<"0">>

\* The suffix of the calls and the average cost, when quantity > 1
QuantitySuffix(self, decimal_places) ==
    IF self.quantity > 1
    THEN <<" ", "(", "x">> \o IntStr(self.quantity) \o <<" ", "a", "p", "p", "e", "l", "s", ",", " ">>
         \o SymbolStr(self.currency_symbol)
         \o format_price(FDivInt(self.total_price, self.quantity), decimal_places)
         \o <<" ", "p", "a", "r", " ", "a", "p", "p", "e", "l", ")">>
    ELSE <<>>

\* ResponsePrice._format_human_readable
format_human_readable(self, decimal_places) ==
    Breakdown(self, Parts(self, decimal_places))
    \o <<" ", "=", " ">> \o SymbolStr(self.currency_symbol)
    \o format_price(self.total_price, decimal_places)
    \o <<" ", "t", "o", "t", "a", "l">>
    \o QuantitySuffix(self, decimal_places)

\* The default of decimal_places in display and _format_human_readable.
DefaultDecimalPlaces == 8

----------------------------------------------------------------------------
(* openai/pricing.py *)

\* A dict keeps its keys in insertion order: the tiers of a model are a
\* sequence of (tier, ModelPricing) items.
Item(tier, pricing) == [tier |-> tier, pricing |-> pricing]

\* list(d.keys())
Keys(items) == [i \in 1..Len(items) |-> items[i].tier]

\* key in d
HasKey(items, tier) == \E i \in 1..Len(items) : items[i].tier = tier

\* d[key], for a key of d
Lookup(items, tier) ==
    items[CHOOSE i \in 1..Len(items) : items[i].tier = tier].pricing

PRICINGS ==
    gpt_5_1 :> <<
        Item("default", MP(Dec(1250, 1000), Dec(125, 1000), Dec(10000, 1000))),
        Item("priority", MP(Dec(250, 100), Dec(25, 100), Dec(2000, 100))),
        Item("flex", MP(Dec(625, 1000), Dec(625, 10000), Dec(500, 100)))>>
    @@ gpt_5 :> <<
        Item("default", MP(Dec(1250, 1000), Dec(125, 1000), Dec(10000, 1000))),
        Item("priority", MP(Dec(250, 100), Dec(25, 100), Dec(2000, 100))),
        Item("flex", MP(Dec(625, 1000), Dec(625, 10000), Dec(500, 100)))>>
    @@ gpt_5_mini :> <<
        Item("default", MP(Dec(250, 1000), Dec(25, 1000), Dec(2000, 1000))),
        Item("priority", MP(Dec(45, 100), Dec(45, 1000), Dec(360, 100))),
        Item("flex", MP(Dec(125, 1000), Dec(125, 10000), Dec(100, 100)))>>
    @@ gpt_5_nano :> <<
        Item("default", MP(Dec(50, 1000), Dec(5, 1000), Dec(400, 1000))),
        Item("flex", MP(Dec(25, 1000), Dec(25, 10000), Dec(20, 100)))>>
    @@ gpt_5_pro :> <<
        Item("default", MP(Dec(15000, 1000), None, Dec(120000, 1000)))>>
    @@ gpt_4_1 :> <<
        Item("default", MP(Dec(2000, 1000), Dec(50, 100), Dec(8000, 1000))),
        Item("priority", MP(Dec(350, 100), Dec(875, 1000), Dec(1400, 100)))>>
    @@ gpt_4_1_mini :> <<
        Item("default", MP(Dec(40, 100), Dec(10, 100), Dec(160, 100))),
        Item("priority", MP(Dec(70, 100), Dec(175, 1000), Dec(280, 100)))>>
    @@ gpt_4_1_nano :> <<
        Item("default", MP(Dec(10, 100), Dec(25, 1000), Dec(40, 100))),
        Item("priority", MP(Dec(20, 100), Dec(5, 100), Dec(80, 100)))>>
    @@ whisper_1 :> <<
        Item("default", MP(Dec(1, 10000), None, None))>>

\* The end of _get_pricing, with model_pricings = PRICINGS[model_name].
TierPricing(model_pricings, model_name, service_tier) ==
    IF ~HasKey(model_pricings, service_tier)
    THEN Raise("KeyError",
               [text |-> "Service tier non disponible pour le modele",
                tier |-> service_tier, model |-> model_name,
                available |-> Keys(model_pricings)])
    ELSE Return(Lookup(model_pricings, service_tier))

\* A lenient _get_pricing that falls back to the "default" tier of a known
\* model; C10 must tell it from the code.
OpenAI_get_pricing_default_fallback(model_name, service_tier) ==
    IF model_name \notin DOMAIN PRICINGS
    THEN Raise("KeyError", [text |-> "Modele inconnu", model |-> model_name])
    ELSE IF ~HasKey(PRICINGS[model_name], service_tier)
    THEN Return(Lookup(PRICINGS[model_name], "default"))
    ELSE Return(Lookup(PRICINGS[model_name], service_tier))

\* OpenAIPricingCalculator._get_pricing
OpenAI_get_pricing(model_name, service_tier) ==
    IF model_name \notin DOMAIN PRICINGS
    THEN Raise("KeyError", [text |-> "Modele inconnu", model |-> model_name])
    ELSE TierPricing(PRICINGS[model_name], model_name, service_tier)

\* str.isdigit of one character of the ASCII range.
IsDigit(c) == c \in {"0", "1", "2", "3", "4", "5", "6", "7", "8", "9"}

\* The lengths of the pattern -\d{4}-\d{2}-\d{2}
DateSuffixLen == 11

\* Whether s[from+1 .. from+11] matches -\d{4}-\d{2}-\d{2}
MatchesDate(s, from) ==
    /\ from >= 0
    /\ from + DateSuffixLen <= Len(s)
    /\ \A k \in 1..DateSuffixLen :
          IF k \in {1, 6, 9} THEN s[from + k] = "-" ELSE IsDigit(s[from + k])

\* A get_price that looks the name up as it is given.
StripDate_keeps_the_name(s) == s

\* re.sub(r"-\d{4}-\d{2}-\d{2}$", "", s): $ matches at the end of the string
\* and just before a newline that ends the string.
StripDate(s) ==
    IF MatchesDate(s, Len(s) - DateSuffixLen)
    THEN SubSeq(s, 1, Len(s) - DateSuffixLen)
    ELSE IF Len(s) >= 1 /\ s[Len(s)] = "\n"
            /\ MatchesDate(s, Len(s) - 1 - DateSuffixLen)
         THEN SubSeq(s, 1, Len(s) - 1 - DateSuffixLen) \o <<"\n">>
         ELSE s

\* What get_price reads of a response: its class, the attributes it has
\* (hasattr), for a dict its keys, and the values of those it reads.  A field
\* whose attribute or key is absent holds a placeholder that is never read.
Usage(keys, input_tokens, output_tokens, cached_tokens, seconds) ==
    [keys |-> keys, input_tokens |-> input_tokens,
     output_tokens |-> output_tokens,
     input_tokens_details |-> [cached_tokens |-> cached_tokens],
     seconds |-> seconds]

UsageMetadata(attrs, prompt_token_count, candidates_token_count) ==
    [attrs |-> attrs, prompt_token_count |-> prompt_token_count,
     candidates_token_count |-> candidates_token_count]

NoUsage == Usage({}, 0, 0, 0, FZero)

NoUsageMetadata == UsageMetadata({}, 0, 0)

\* openai.types.responses.Response
LLMResponse(model, service_tier, input_tokens, cached_tokens, output_tokens) ==
    [cls |-> "Response", attrs |-> {"model", "service_tier", "usage"},
     keys |-> {}, model |-> model, service_tier |-> service_tier,
     usage |-> Usage({}, input_tokens, output_tokens, cached_tokens, FZero),
     usage_metadata |-> NoUsageMetadata]

\* {"usage": {"seconds": seconds}}
STTRecord(seconds) ==
    [cls |-> "dict", attrs |-> {}, keys |-> {"usage"}, model |-> NoneName,
     service_tier |-> NoneStr,
     usage |-> Usage({"seconds"}, 0, 0, 0, seconds),
     usage_metadata |-> NoUsageMetadata]

MissingModelMessage ==
    [text |-> "Le nom du modele doit etre fourni si la reponse n'a pas d'attribut 'model'"]

\* get_price, LLM branch, after `pricing = self._get_pricing(...)` ended with
\* `pricing`: an exception of the resolver goes to the caller.
LLMPrice(pricing, response) ==
    IF ~pricing.ok THEN pricing
    ELSE IF "usage" \notin response.attrs
    THEN Raise("AttributeError", [attr |-> "usage"])
    ELSE Return(from_tokens(
             pricing.value,
             response.usage.input_tokens
                - response.usage.input_tokens_details.cached_tokens,
             response.usage.input_tokens_details.cached_tokens,
             response.usage.output_tokens))

\* get_price, STT branch, after `pricing = self._get_pricing(...)`.
STTPrice(pricing, response) ==
    IF ~pricing.ok THEN pricing
    ELSE IF response.cls # "dict"
    THEN Raise("TypeError", [text |-> "object is not subscriptable"])
    ELSE IF "usage" \notin response.keys
    THEN Raise("KeyError", [key |-> "usage"])
    ELSE IF "seconds" \notin response.usage.keys
    THEN Raise("KeyError", [key |-> "seconds"])
    ELSE Return(from_duration(pricing.value, response.usage.seconds))

\* get_price from the date stripping on, with the name it found.
ModePrice(mode, stt_model_name, response) ==
    IF mode = "LLM"
    THEN IF "service_tier" \notin response.attrs
         THEN Raise("AttributeError", [attr |-> "service_tier"])
         ELSE LLMPrice(OpenAI_get_pricing(StripDate(stt_model_name),
                                          response.service_tier),
                       response)
    ELSE STTPrice(OpenAI_get_pricing(StripDate(stt_model_name), "default"),
                  response)

\* A get_price that asks for the model name only once it has read the seconds.
OpenAI_get_price_name_checked_late(response, stt_model_name) ==
    IF "model" \in response.attrs
    THEN ModePrice("LLM", response.model, response)
    ELSE IF response.cls # "dict"
    THEN Raise("TypeError", [text |-> "object is not subscriptable"])
    ELSE IF "usage" \notin response.keys
    THEN Raise("KeyError", [key |-> "usage"])
    ELSE IF "seconds" \notin response.usage.keys
    THEN Raise("KeyError", [key |-> "seconds"])
    ELSE IF stt_model_name = NoneName
    THEN Raise("ValueError", MissingModelMessage)
    ELSE ModePrice("STT", stt_model_name, response)

\* A get_price that prefers the name the caller gives to the model of the
\* response; C28 must tell it from the code.
OpenAI_get_price_caller_name_first(response, stt_model_name) ==
    IF "model" \in response.attrs
    THEN ModePrice("LLM",
                   IF stt_model_name # NoneName THEN stt_model_name
                   ELSE response.model,
                   response)
    ELSE IF stt_model_name = NoneName
    THEN Raise("ValueError", MissingModelMessage)
    ELSE ModePrice("STT", stt_model_name, response)

\* OpenAIPricingCalculator.get_price
OpenAI_get_price(response, stt_model_name) ==
    IF "model" \in response.attrs
    THEN ModePrice("LLM", response.model, response)
    ELSE IF stt_model_name = NoneName
    THEN Raise("ValueError", MissingModelMessage)
    ELSE ModePrice("STT", stt_model_name, response)

----------------------------------------------------------------------------
(* gemini/pricing.py *)

GEMINI_PRICINGS ==
    gemini_3_pro_preview :> <<
        Item("default", MP(Dec(200, 100), None, Dec(1200, 100)))>>
    @@ gemini_3_flash_preview :> <<
        Item("default", MP(Dec(50, 100), None, Dec(300, 100)))>>

\* sub in s, for strs
Contains(s, sub) ==
    \E i \in 0..(Len(s) - Len(sub)) : SubSeq(s, i + 1, i + Len(sub)) = sub

\* _get_pricing without the "pro" heuristic: every name that is no key of the
\* table falls to the flash record.
Gemini_get_pricing_flash_only(model_name, service_tier) ==
    IF model_name \in DOMAIN GEMINI_PRICINGS
    THEN IF HasKey(GEMINI_PRICINGS[model_name], service_tier)
         THEN Lookup(GEMINI_PRICINGS[model_name], service_tier)
         ELSE Lookup(GEMINI_PRICINGS[model_name], "default")
    ELSE Lookup(GEMINI_PRICINGS[gemini_3_flash_preview], "default")

\* GeminiPricingCalculator._get_pricing
Gemini_get_pricing(model_name, service_tier) ==
    IF model_name \in DOMAIN GEMINI_PRICINGS
    THEN IF HasKey(GEMINI_PRICINGS[model_name], service_tier)
         THEN Lookup(GEMINI_PRICINGS[model_name], service_tier)
         ELSE Lookup(GEMINI_PRICINGS[model_name], "default")
    ELSE IF Contains(model_name, <<"p", "r", "o">>)
    THEN Lookup(GEMINI_PRICINGS[gemini_3_pro_preview], "default")
    ELSE Lookup(GEMINI_PRICINGS[gemini_3_flash_preview], "default")

\* GeminiResponse of gemini/caller.py, or any object given as a Gemini response
GeminiResponse(attrs, model, usage_metadata) ==
    [cls |-> "GeminiResponse", attrs |-> attrs, keys |-> {}, model |-> model,
     service_tier |-> NoneStr, usage |-> NoUsage,
     usage_metadata |-> usage_metadata]

\* The ResponsePrice that get_price builds from the two prices.
GeminiResponsePrice(input_price, output_price, input_tokens, output_tokens, input_pricing_per_m, output_pricing_per_m) ==
    ResponsePrice(input_price, FZero, output_price,
                  FAdd(input_price, output_price),
                  input_tokens, 0, output_tokens,
                  input_pricing_per_m, FZero, output_pricing_per_m,
                  "dollar", "$", DefaultQuantity)

\* get_price after the token counts and the rates are read.
GeminiTokenPrice(input_tokens, output_tokens, input_pricing_per_m, output_pricing_per_m) ==
    GeminiResponsePrice(
        FMul(IntDivInt(input_tokens, PerMillion), input_pricing_per_m),
        FMul(IntDivInt(output_tokens, PerMillion), output_pricing_per_m),
        input_tokens, output_tokens, input_pricing_per_m, output_pricing_per_m)

\* A get_price that reads the two token counts the other way round.
GeminiPrice_counts_swapped(usage, pricing) ==
    GeminiTokenPrice(
        IF "candidates_token_count" \in usage.attrs
        THEN usage.candidates_token_count ELSE 0,
        IF "prompt_token_count" \in usage.attrs
        THEN usage.prompt_token_count ELSE 0,
        pricing.input,
        IF pricing.output # None THEN pricing.output ELSE FZero)

\* get_price after `pricing = self._get_pricing(model)`.
GeminiPrice(usage, pricing) ==
    GeminiTokenPrice(
        IF "prompt_token_count" \in usage.attrs
        THEN usage.prompt_token_count ELSE 0,
        IF "candidates_token_count" \in usage.attrs
        THEN usage.candidates_token_count ELSE 0,
        pricing.input,
        IF pricing.output # None THEN pricing.output ELSE FZero)

\* GeminiPricingCalculator.get_price
Gemini_get_price(response) ==
    IF "usage_metadata" \notin response.attrs
    THEN Raise("AttributeError", [attr |-> "usage_metadata"])
    ELSE Return(GeminiPrice(
             response.usage_metadata,
             Gemini_get_pricing(IF "model" \in response.attrs
                                THEN response.model
                                ELSE gemini_3_flash_preview,
                                "default")))

----------------------------------------------------------------------------
(* pricing_calculator.py *)

\* A get_price whose detection looks at service_tier before usage_metadata.
get_price_service_tier_first(response, provider, stt_model_name) ==
    LET detected ==
            IF provider # NoneStr THEN provider
            ELSE IF "service_tier" \in response.attrs THEN "openai"
            ELSE IF "usage_metadata" \in response.attrs THEN "gemini"
            ELSE IF response.cls = "Response" THEN "openai"
            ELSE IF response.cls = "dict" /\ "usage" \in response.keys THEN "openai"
            ELSE NoneStr
    IN  IF detected = NoneStr
        THEN Raise("ValueError", [text |-> "Impossible de determiner le fournisseur"])
        ELSE IF detected = "openai"
        THEN OpenAI_get_price(response, stt_model_name)
        ELSE IF detected = "gemini"
        THEN Gemini_get_price(response)
        ELSE Raise("ValueError", [text |-> "Fournisseur non supporte", provider |-> detected])

\* A get_price that hands a response it cannot place to the OpenAI calculator.
get_price_openai_when_undetected(response, provider, stt_model_name) ==
    LET detected ==
            IF provider # NoneStr THEN provider
            ELSE IF "usage_metadata" \in response.attrs THEN "gemini"
            ELSE "openai"
    IN  IF detected = "openai"
        THEN OpenAI_get_price(response, stt_model_name)
        ELSE IF detected = "gemini"
        THEN Gemini_get_price(response)
        ELSE Raise("ValueError", [text |-> "Fournisseur non supporte", provider |-> detected])

\* ConsolidatedPricingCalculator.get_price
get_price(response, provider, stt_model_name) ==
    LET detected ==
            IF provider # NoneStr THEN provider
            ELSE IF "usage_metadata" \in response.attrs THEN "gemini"
            ELSE IF "service_tier" \in response.attrs THEN "openai"
            ELSE IF response.cls = "Response" THEN "openai"
            ELSE IF response.cls = "dict" /\ "usage" \in response.keys
                    /\ "seconds" \in response.usage.keys THEN "openai"
            ELSE IF response.cls = "dict" /\ "usage" \in response.keys THEN "openai"
            ELSE NoneStr
    IN  IF detected = NoneStr
        THEN Raise("ValueError", [text |-> "Impossible de determiner le fournisseur"])
        ELSE IF detected = "openai"
        THEN OpenAI_get_price(response, stt_model_name)
        ELSE IF detected = "gemini"
        THEN Gemini_get_price(response)
        ELSE Raise("ValueError", [text |-> "Fournisseur non supporte", provider |-> detected])

----------------------------------------------------------------------------
(* The caller: a program that prices responses and folds the prices *)

\* Largest token count of a response.
MaxTokens == 3

\* Largest factor by which a usage is scaled.
MaxScale == 4

\* Largest quantity the caller folds into one ResponsePrice.
MaxQuantity == 3

\* The caller's ResponsePrice variables, in the order it first binds them.
SlotOrder == <<"total", "price">>

Slots == {SlotOrder[i] : i \in 1..Len(SlotOrder)}

DateSuffix == <<"-", "2", "0", "2", "5", "-", "0", "4", "-", "1", "4">>

made_up_model == <<"m", "a", "d", "e", "-", "u", "p", "-", "m", "o", "d", "e", "l">>

GeminiAttrs == {"output_text", "usage_metadata", "model"}

TokenAttrs == {"prompt_token_count", "candidates_token_count"}

\* An object that is no response of either provider.
OtherObject ==
    [cls |-> "object", attrs |-> {}, keys |-> {}, model |-> NoneName,
     service_tier |-> NoneStr, usage |-> NoUsage,
     usage_metadata |-> NoUsageMetadata]

\* The pricing calls the caller makes: (response, provider, stt_model_name).
Calls ==
    { <<LLMResponse(gpt_4_1_nano \o DateSuffix, "default", MaxTokens, 1, 2),
        NoneStr, NoneName>>,
      <<LLMResponse(gpt_5_pro, "default", MaxTokens, 2, 1), "openai", whisper_1>>,
      <<LLMResponse(gpt_4_1_nano, "priority", 1, MaxTokens, 0), NoneStr, NoneName>>,
      <<LLMResponse(gpt_5_pro, "priority", 1, 0, 1), NoneStr, NoneName>>,
      <<LLMResponse(made_up_model, "default", 1, 0, 1), NoneStr, NoneName>>,
      <<STTRecord(Dec(5 * MaxTokens, 2)), NoneStr, whisper_1>>,
      <<STTRecord(Dec(5 * MaxTokens, 2)), NoneStr, NoneName>>,
      <<GeminiResponse(GeminiAttrs, gemini_3_pro_preview,
                       UsageMetadata(TokenAttrs, MaxTokens, 1)), "gemini", NoneName>>,
      <<GeminiResponse(GeminiAttrs \ {"model"}, NoneName,
                       UsageMetadata(TokenAttrs, 1, MaxTokens)), NoneStr, NoneName>>,
      <<OtherObject, NoneStr, NoneName>>,
      <<OtherObject, "mistral", NoneName>> }

\* The token counts of the responses below.
TokenUsage == Usage({"input_tokens", "output_tokens"}, MaxTokens, 2, 1, FZero)

\* A Gemini response of MaxTokens prompt tokens and 1 candidate token.
GeminiOf(model) ==
    GeminiResponse(GeminiAttrs, model, UsageMetadata(TokenAttrs, MaxTokens, 1))

\* Scenario A: an OpenAI response of gpt-4.1-nano, tier default, with 1000
\* input tokens of which 200 cached, and 50 output tokens.
ScenarioA == LLMResponse(gpt_4_1_nano, "default", 1000, 200, 50)

\* Scenario C: a Gemini response of gemini-3-pro-preview with 2000 prompt
\* tokens and 500 candidate tokens.
ScenarioC ==
    GeminiResponse(GeminiAttrs, gemini_3_pro_preview,
                   UsageMetadata(TokenAttrs, 2000, 500))

\* An object with the attributes of both providers' responses.
BothShapes ==
    [cls |-> "object",
     attrs |-> {"model", "service_tier", "usage", "usage_metadata"},
     keys |-> {}, model |-> gpt_5_pro, service_tier |-> "default",
     usage |-> TokenUsage,
     usage_metadata |-> UsageMetadata(TokenAttrs, MaxTokens, 1)]

\* A dict subclass {"usage": {"seconds": s}} that also has a usage_metadata
\* attribute.
RecordWithMetadata ==
    [STTRecord(Dec(5 * MaxTokens, 2)) EXCEPT
        !.attrs = {"usage_metadata"},
        !.usage_metadata = UsageMetadata(TokenAttrs, MaxTokens, 1)]

\* {"usage": {"input_tokens": .., "output_tokens": ..}}: a dict of token
\* usage, without seconds.
TokenRecord ==
    [cls |-> "dict", attrs |-> {}, keys |-> {"usage"}, model |-> NoneName,
     service_tier |-> NoneStr, usage |-> TokenUsage,
     usage_metadata |-> NoUsageMetadata]

\* Calls on the shapes and names that decide the route and the record:
\* (response, provider, stt_model_name).
DispatchCalls ==
    { \* tiers
      <<LLMResponse(gpt_4_1_nano, NoneStr, MaxTokens, 1, 2), NoneStr, NoneName>>,
      \* names with and without a date
      <<LLMResponse(gpt_4_1_nano, "default", MaxTokens, 1, 2), NoneStr, NoneName>>,
      <<LLMResponse(made_up_model \o DateSuffix, "default", 1, 0, 1),
        NoneStr, NoneName>>,
      <<LLMResponse(gpt_5, "default", MaxTokens, 1, 2), NoneStr, NoneName>>,
      <<LLMResponse(gpt_5 \o DateSuffix, "default", MaxTokens, 1, 2),
        NoneStr, NoneName>>,
      <<LLMResponse(gpt_5 \o DateSuffix \o DateSuffix, "default", MaxTokens, 1, 2),
        NoneStr, NoneName>>,
      <<STTRecord(Dec(5 * MaxTokens, 2)), NoneStr, whisper_1 \o DateSuffix>>,
      <<GeminiOf(gemini_3_pro_preview \o DateSuffix), "gemini", NoneName>>,
      <<GeminiOf(gemini_3_flash_preview), NoneStr, NoneName>>,
      <<GeminiOf(gemini_3_flash_preview \o DateSuffix), NoneStr, NoneName>>,
      <<GeminiOf(made_up_model), NoneStr, NoneName>>,
      <<GeminiOf(made_up_model \o DateSuffix), NoneStr, NoneName>>,
      <<GeminiOf(gpt_5_pro), NoneStr, NoneName>>,
      <<GeminiOf(gpt_5_pro \o DateSuffix), NoneStr, NoneName>>,
      \* shapes
      <<BothShapes, NoneStr, NoneName>>,
      <<BothShapes, "openai", NoneName>>,
      <<BothShapes, "gemini", NoneName>>,
      <<RecordWithMetadata, NoneStr, whisper_1>>,
      <<RecordWithMetadata, "openai", whisper_1>>,
      <<[LLMResponse(gpt_5_pro, "default", MaxTokens, 2, 1) EXCEPT
            !.attrs = @ \ {"service_tier"}, !.service_tier = NoneStr],
        NoneStr, NoneName>>,
      <<[BothShapes EXCEPT !.attrs = @ \ {"usage_metadata"}], NoneStr, NoneName>>,
      <<LLMResponse(gpt_5_pro, "default", MaxTokens, 2, 1), "gemini", NoneName>>,
      <<GeminiOf(gemini_3_pro_preview), "openai", NoneName>>,
      <<TokenRecord, NoneStr, NoneName>>,
      <<TokenRecord, NoneStr, gpt_4_1_nano>>,
      <<[TokenRecord EXCEPT !.keys = {}], NoneStr, whisper_1>>,
      \* Gemini usage without one of the counts
      <<GeminiResponse(GeminiAttrs, gemini_3_flash_preview,
                       UsageMetadata({"prompt_token_count"}, MaxTokens, 0)),
        NoneStr, NoneName>>,
      \* the two worked scenarios
      <<ScenarioA, NoneStr, NoneName>>,
      <<ScenarioC, NoneStr, NoneName>> }

\* A price record of a caller that bills in another currency.
EuroPricing == ModelPricing(Dec(150, 100), Dec(75, 100), None, "euro", "EUR")

\* The price records the caller passes to from_tokens and from_duration.
Pricings == {Lookup(PRICINGS[gpt_5_pro], "default"), EuroPricing}

TokenCounts == {0, MaxTokens}

Durations == {Dec(5 * MaxTokens, 2)}

VARIABLES
    tables,   \* the module-level pricing tables: PRICINGS of openai/pricing.py
              \* and GEMINI_PRICINGS of gemini/pricing.py, whose ModelPricing
              \* objects _get_pricing hands out by reference
    prices,   \* prices[s]: the ResponsePrice held in variable s, or None
    folded,   \* folded[s][c]: how many times the ResponsePrice first bound to
              \* variable c by a pricing call has been added into prices[s]
    last,     \* the last call: its name, arguments and outcome
    stt,      \* the OpenAISTTCaller object of the caller, once constructed:
              \* use_api, model (the checkpoint load_model returned),
              \* _loaded_model_name, last_duration
    threads   \* the threads that run accumulate on one aggregate: the
              \* aggregate, each thread's operand, position and the value it
              \* has read, and whether the caller serializes the calls

vars == <<tables, prices, folded, last, threads, stt>>

\* No OpenAISTTCaller has been constructed.
NoCaller == [constructed |-> FALSE]

\* No thread has been started.
NoThreads == [started |-> FALSE]

NoCalls == [c \in Slots |-> 0]

Init ==
    /\ tables = [openai |-> PRICINGS, gemini |-> GEMINI_PRICINGS]
    /\ prices = [s \in Slots |-> None]
    /\ folded = [s \in Slots |-> NoCalls]
    /\ last = [op |-> "init"]
    /\ threads = NoThreads
    /\ stt = NoCaller

\* The variable that receives the next priced response.
FreeSlot ==
    SlotOrder[CHOOSE i \in 1..Len(SlotOrder) :
                 /\ prices[SlotOrder[i]] = None
                 /\ \A j \in 1..(i - 1) : prices[SlotOrder[j]] # None]

\* A pricing call ended with `result`: the caller binds the value returned to
\* its next variable; an exception leaves every variable as it was.
Bind(result) ==
    IF result.ok
    THEN /\ \E s \in Slots : prices[s] = None
         /\ prices' = [prices EXCEPT ![FreeSlot] = result.value]
         /\ folded' = [folded EXCEPT ![FreeSlot] = [NoCalls EXCEPT ![FreeSlot] = 1]]
    ELSE UNCHANGED <<prices, folded>>

\* The outcome of each pricing call of Calls and DispatchCalls.
CallResults ==
    [call \in Calls \cup DispatchCalls |-> get_price(call[1], call[2], call[3])]

\* price = PricingCalculator().get_price(response, provider, stt_model_name)
GetPrice(response, provider, stt_model_name) ==
    /\ Bind(CallResults[<<response, provider, stt_model_name>>])
    /\ last' = [op |-> "get_price",
                args |-> <<response, provider, stt_model_name>>,
                result |-> CallResults[<<response, provider, stt_model_name>>]]
    /\ UNCHANGED <<tables, threads, stt>>

\* price = ResponsePrice.from_tokens(model_pricing, i, c, o)
FromTokens(model_pricing, input_tokens, input_cached_tokens, output_tokens) ==
    /\ Bind(Return(from_tokens(model_pricing, input_tokens,
                               input_cached_tokens, output_tokens)))
    /\ last' = [op |-> "from_tokens",
                args |-> <<model_pricing, input_tokens,
                           input_cached_tokens, output_tokens>>,
                result |-> Return(from_tokens(model_pricing, input_tokens,
                                              input_cached_tokens, output_tokens))]
    /\ UNCHANGED <<tables, threads, stt>>

\* price = ResponsePrice.from_duration(model_pricing, duration_seconds)
FromDuration(model_pricing, duration_seconds) ==
    /\ Bind(Return(from_duration(model_pricing, duration_seconds)))
    /\ last' = [op |-> "from_duration",
                args |-> <<model_pricing, duration_seconds>>,
                result |-> Return(from_duration(model_pricing, duration_seconds))]
    /\ UNCHANGED <<tables, threads, stt>>

\* prices[dst] = prices[a] + prices[b]
Combine(a, b, dst) ==
    /\ prices[a] # None
    /\ prices[b] # None
    /\ prices[a].quantity + prices[b].quantity <= MaxQuantity
    /\ LET result == ResponsePrice_add(prices[a], prices[b])
       IN  /\ IF result.ok
              THEN /\ prices' = [prices EXCEPT ![dst] = result.value]
                   /\ folded' = [folded EXCEPT ![dst] =
                                    [c \in Slots |-> folded[a][c] + folded[b][c]]]
              ELSE UNCHANGED <<prices, folded>>
           /\ last' = [op |-> "add", args |-> <<a, b, dst>>,
                       operands |-> <<prices[a], prices[b]>>, result |-> result]
    /\ UNCHANGED <<tables, threads, stt>>

\* An accumulate whose aggregate shares its rate with the record it was priced
\* from: adding to the aggregate's fields also adds into the "default" record
\* of whisper-1 in the table.
Accumulate_into_shared_record(a, b) ==
    /\ prices[a] # None
    /\ prices[b] # None
    /\ prices[a].quantity + prices[b].quantity <= MaxQuantity
    /\ LET result == ResponsePrice_iadd(prices[a], prices[b])
       IN  /\ prices' = [prices EXCEPT ![a] = result.self]
           /\ folded' = IF result.ok
                        THEN [folded EXCEPT ![a] =
                                 [c \in Slots |-> folded[a][c] + folded[b][c]]]
                        ELSE folded
           /\ last' = [op |-> "iadd", args |-> <<a, b>>,
                       operands |-> <<prices[a], prices[b]>>, result |-> result]
    /\ tables' = [tables EXCEPT !.openai[whisper_1][1].pricing.input =
                                   FAdd(@, prices[b].input_pricing)]
    /\ UNCHANGED <<threads, stt>>

\* prices[a] += prices[b]
Accumulate(a, b) ==
    /\ prices[a] # None
    /\ prices[b] # None
    /\ prices[a].quantity + prices[b].quantity <= MaxQuantity
    /\ LET result == ResponsePrice_iadd(prices[a], prices[b])
       IN  /\ prices' = [prices EXCEPT ![a] = result.self]
           /\ folded' = IF result.ok
                        THEN [folded EXCEPT ![a] =
                                 [c \in Slots |-> folded[a][c] + folded[b][c]]]
                        ELSE folded
           /\ last' = [op |-> "iadd", args |-> <<a, b>>,
                       operands |-> <<prices[a], prices[b]>>, result |-> result]
    /\ UNCHANGED <<tables, threads, stt>>

\* OpenAIPricingCalculator()._get_pricing(model_name, service_tier)
Resolve(model_name, service_tier) ==
    /\ last' = [op |-> "_get_pricing", args |-> <<model_name, service_tier>>,
                result |-> OpenAI_get_pricing(model_name, service_tier)]
    /\ UNCHANGED <<tables, prices, folded, threads, stt>>

\* GeminiPricingCalculator._get_pricing(model_name, service_tier), which has
\* no raising path
ResolveGemini(model_name, service_tier) ==
    /\ last' = [op |-> "gemini._get_pricing",
                args |-> <<model_name, service_tier>>,
                result |-> Return(Gemini_get_pricing(model_name, service_tier))]
    /\ UNCHANGED <<tables, prices, folded, threads, stt>>

\* The calls of Calls that return a ResponsePrice, and those that raise.
PricedCalls == {call \in Calls : CallResults[call].ok}

RefusedCalls == Calls \ PricedCalls

Next ==
    \/ \E call \in PricedCalls : GetPrice(call[1], call[2], call[3])
    \/ \E mp \in Pricings, c \in TokenCounts : FromTokens(mp, MaxTokens, c, 1)
    \/ \E mp \in Pricings, d \in Durations : FromDuration(mp, d)
    \/ \E a \in Slots, b \in Slots, dst \in Slots : Combine(a, b, dst)
    \/ \E a \in Slots, b \in Slots : Accumulate(a, b)

\* A caller that prices responses and folds the prices it is given.
Spec == Init /\ [][Next]_vars

\* The model names and tiers given to the OpenAI resolver: the keys of both
\* tables, every OpenAI key with a date suffix, and names of neither table.
ModelNames ==
    DOMAIN PRICINGS \cup DOMAIN GEMINI_PRICINGS
    \cup {m \o DateSuffix : m \in DOMAIN PRICINGS}
    \cup {made_up_model, <<>>}

Tiers == {"default", "priority", "flex", "batch", NoneStr}

NextResolve ==
    \/ \E m \in ModelNames, t \in Tiers : Resolve(m, t)
    \/ \E m \in ModelNames, t \in Tiers : ResolveGemini(m, t)
    \/ \E call \in RefusedCalls : GetPrice(call[1], call[2], call[3])

\* The resolver over every name and tier, and the pricing calls that raise.
SpecResolve == Init /\ [][NextResolve]_vars

NextDispatch ==
    \E call \in Calls \cup DispatchCalls : GetPrice(call[1], call[2], call[3])

\* A caller that prices responses of every shape.
SpecDispatch == Init /\ [][NextDispatch]_vars

----------------------------------------------------------------------------
(* Properties *)

\* The variables that hold a ResponsePrice.
Bound == {s \in Slots : prices[s] # None}

\* p.input_price + p.input_cached_price + p.output_price, as Python evaluates it
SumOfParts(p) == FAdd(FAdd(p.input_price, p.input_cached_price), p.output_price)

\* Number of priced calls folded into prices[s], each counted as often as it
\* was added.
RECURSIVE SumOver(_, _)
SumOver(f, S) ==
    IF S = {} THEN 0
    ELSE LET x == CHOOSE y \in S : TRUE IN f[x] + SumOver(f, S \ {x})

Folded(s) == SumOver(folded[s], Slots)

\* prices[s] is as a pricing call returned it.
Fresh(s) == prices[s] # None /\ prices[s].quantity = 1 /\ Folded(s) = 1

PriceFields == {"input_price", "input_cached_price", "output_price", "total_price"}

CountFields == {"input_tokens", "input_cached_tokens", "output_tokens", "quantity"}

RateFields == {"input_pricing", "input_cached_pricing", "output_pricing",
               "currency", "currency_symbol"}

AgreeOn(p, q, fields) == \A f \in fields : p[f] = q[f]

\* a + b for ResponsePrices of one currency
Plus(a, b) == ResponsePrice_add(a, b).value

\* C1 as stated: in every ResponsePrice the caller holds, total_price equals
\* input_price + input_cached_price + output_price.
C1_TotalIsSumEverywhere ==
    \A s \in Bound : prices[s].total_price = SumOfParts(prices[s])

\* C1, amended: total_price equals input_price + input_cached_price +
\* output_price in every ResponsePrice as a pricing call returned it, and a
\* successful + or += sets total_price to the float sum of the operands'
\* total_price (it does not recompute it from the summed components).
C1_TotalIsSumWhenFresh ==
    /\ \A s \in Slots : Fresh(s) => prices[s].total_price = SumOfParts(prices[s])
    /\ last.op \in {"get_price", "from_tokens", "from_duration"} /\ last.result.ok
          => last.result.value.total_price = SumOfParts(last.result.value)
    /\ last.op = "add" /\ last.result.ok
          => last.result.value.total_price =
                FAdd(last.operands[1].total_price, last.operands[2].total_price)
    /\ last.op = "iadd" /\ last.result.ok
          => last.result.self.total_price =
                FAdd(last.operands[1].total_price, last.operands[2].total_price)

\* C1 witness: a folded ResponsePrice whose total is the sum of its operands'
\* totals and is not the sum of its own components.
C1_Witness ==
    /\ last.op \in {"add", "iadd"}
    /\ last.result.ok
    /\ \E s \in Bound : prices[s].quantity > 1
                        /\ prices[s].total_price # SumOfParts(prices[s])
    /\ \E s \in Slots : Fresh(s)

\* The ResponsePrices at hand: those the caller holds and the operands of the
\* last + or +=.
Values ==
    {prices[s] : s \in Bound}
    \cup (IF last.op \in {"add", "iadd"}
          THEN {last.operands[1], last.operands[2]} ELSE {})

\* + is commutative on `fields`, for the ResponsePrices at hand.
Commutative(fields) ==
    \A a \in Values, b \in Values :
        a.currency = b.currency => AgreeOn(Plus(a, b), Plus(b, a), fields)

\* + is associative on `fields`, for the ResponsePrices at hand.
Associative(fields) ==
    \A a \in Values, b \in Values, c \in Values :
        a.currency = b.currency /\ b.currency = c.currency
            => AgreeOn(Plus(Plus(a, b), c), Plus(a, Plus(b, c)), fields)

\* C2 as stated: + is commutative and associative on the price fields, the
\* token fields and quantity.
C2_CommutativeAssociativeOnAllFields ==
    /\ Commutative(PriceFields \cup CountFields)
    /\ Associative(PriceFields \cup CountFields)

\* C2, amended: + is commutative on the price fields, the token fields and
\* quantity, and associative on the token fields and quantity (on the price
\* fields the two groupings round differently).
C2_CommutativeAndAssociativeOnCounts ==
    /\ Commutative(PriceFields \cup CountFields)
    /\ Associative(CountFields)

\* C2 witness: after a +, three ResponsePrices of one currency whose two
\* groupings differ in a price field.
C2_Witness ==
    /\ last.op = "add"
    /\ last.result.ok
    /\ \E a \in Values, b \in Values, c \in Values :
          /\ a.currency = b.currency /\ b.currency = c.currency
          /\ a # b
          /\ ~AgreeOn(Plus(Plus(a, b), c), Plus(a, Plus(b, c)), PriceFields)

\* The variables the last + or += was called on.
LastA == last.args[1]

LastB == last.args[2]

\* C3: a + b and a += b with a.currency # b.currency raise the ValueError of
\* the currency check, return nothing, and leave a and b as they were.
C3_CurrencyMismatchRaisesAndKeeps ==
    last.op \in {"add", "iadd"}
    /\ last.operands[1].currency # last.operands[2].currency
    => /\ ~last.result.ok
       /\ last.result.error = "ValueError"
       /\ last.result.msg = CurrencyMessage(last.operands[1], last.operands[2])
       /\ prices[LastA] = last.operands[1]
       /\ prices[LastB] = last.operands[2]

\* C3 witness: a += between a dollar price and a euro price has raised.
C3_Witness ==
    /\ last.op = "iadd"
    /\ ~last.result.ok
    /\ {last.operands[1].currency, last.operands[2].currency} = {"dollar", "euro"}

C5_QuantityCountsCalls ==
    \A s \in Bound :
        /\ prices[s].quantity >= 1
        /\ prices[s].quantity = Folded(s)

\* C5 witness: a ResponsePrice into which two priced calls were folded, once
\* each.
C5_Witness ==
    \E s \in Bound :
        /\ \A c \in Slots : folded[s][c] = 1
        /\ prices[s].quantity = 2

\* C6: a + b and a += b carry input_pricing, input_cached_pricing,
\* output_pricing, currency and currency_symbol from a, whatever b holds.
C6_RatesCarriedFromA ==
    /\ last.op = "add" /\ last.result.ok
       => AgreeOn(last.result.value, last.operands[1], RateFields)
    /\ last.op = "iadd" /\ last.result.ok
       => AgreeOn(prices[LastA], last.operands[1], RateFields)

\* C6 witness: a + b has returned for a b whose three rates all differ from
\* those of a.
C6_Witness ==
    /\ last.op = "add"
    /\ last.result.ok
    /\ \A f \in {"input_pricing", "input_cached_pricing", "output_pricing"} :
          last.operands[1][f] # last.operands[2][f]

\* C7: from_tokens returns input_price = input_tokens * price.input / 1_000_000,
\* input_cached_price = input_cached_tokens * price.input_cached / 1_000_000 or
\* 0 when price.input_cached is None, output_price = output_tokens *
\* price.output / 1_000_000 or 0 when price.output is None, and total_price =
\* the sum of the three.
C7_FromTokensFormula ==
    last.op = "from_tokens" =>
        LET price == last.args[1]
            v == last.result.value
        IN  /\ v.input_price = FDivInt(IntMulF(last.args[2], price.input), PerMillion)
            /\ v.input_cached_price =
                  IF price.input_cached = None THEN FZero
                  ELSE FDivInt(IntMulF(last.args[3], price.input_cached), PerMillion)
            /\ v.output_price =
                  IF price.output = None THEN FZero
                  ELSE FDivInt(IntMulF(last.args[4], price.output), PerMillion)
            /\ v.total_price =
                  FAdd(FAdd(v.input_price, v.input_cached_price), v.output_price)

\* C7 witness: from_tokens has priced cached and output tokens with a record
\* that has a cached rate and no output rate.
C7_Witness ==
    /\ last.op = "from_tokens"
    /\ last.args[1].input_cached # None
    /\ last.args[1].output = None
    /\ last.args[3] > 0
    /\ last.args[4] > 0
    /\ last.result.value.input_cached_price # FZero
    /\ last.result.value.output_price = FZero

\* price.input a second, for `seconds` seconds, and nothing else.
IsDurationPrice(v, price, seconds) ==
    /\ v.input_price = FMul(seconds, price.input)
    /\ v.input_cached_price = FZero
    /\ v.output_price = FZero
    /\ v.total_price = v.input_price

\* C8: from_duration returns input_price = duration_seconds * price.input (no
\* division by one million), input_cached_price = output_price = 0 and
\* total_price = input_price; get_price of {"usage": {"seconds": d}} with a
\* model named by the caller returns this for the model's "default" record.
C8_FromDurationFormula ==
    /\ last.op = "from_duration"
       => IsDurationPrice(last.result.value, last.args[1], last.args[2])
    /\ last.op = "get_price" /\ last.args[1].cls = "dict" /\ last.args[3] # NoneName
       => /\ last.result.ok
          /\ \E i \in 1..Len(PRICINGS[last.args[3]]) :
                /\ PRICINGS[last.args[3]][i].tier = "default"
                /\ IsDurationPrice(last.result.value,
                                   PRICINGS[last.args[3]][i].pricing,
                                   last.args[1].usage.seconds)

\* C8 witness: get_price has priced a record of seconds for whisper-1.
C8_Witness ==
    /\ last.op = "get_price"
    /\ last.args[1].cls = "dict"
    /\ last.args[3] = whisper_1
    /\ last.result.ok
    /\ FPos(last.result.value.total_price)

\* C9: an OpenAI response whose cached_tokens exceeds its input_tokens is
\* rejected with MalformedUsageError, and no ResponsePrice has a negative
\* input_tokens or input_price.
C9_NegativeUsageRejected ==
    /\ last.op = "get_price" /\ last.args[1].cls = "Response"
       /\ last.args[1].usage.input_tokens_details.cached_tokens
             > last.args[1].usage.input_tokens
       => ~last.result.ok /\ last.result.error = "MalformedUsageError"
    /\ \A s \in Bound : prices[s].input_tokens >= 0 /\ ~FNeg(prices[s].input_price)

\* C10: _get_pricing returns the record of (model, tier) exactly when the model
\* is a key of PRICINGS and the tier a key of that model; an absent model
\* raises the unknown-model KeyError (whatever the tier), an absent tier of a
\* known model raises the KeyError that lists that model's tiers.
C10_StrictResolution ==
    last.op = "_get_pricing" =>
        LET model == last.args[1]
            tier == last.args[2]
            r == last.result
            known == model \in DOMAIN PRICINGS
            hasTier == known /\ \E i \in 1..Len(PRICINGS[model]) :
                                   PRICINGS[model][i].tier = tier
        IN  /\ r.ok <=> hasTier
            /\ r.ok => \E i \in 1..Len(PRICINGS[model]) :
                           /\ PRICINGS[model][i].tier = tier
                           /\ r.value = PRICINGS[model][i].pricing
            /\ ~known => /\ ~r.ok
                         /\ r.error = "KeyError"
                         /\ r.msg = [text |-> "Modele inconnu", model |-> model]
            /\ known /\ ~hasTier
               => /\ ~r.ok
                  /\ r.error = "KeyError"
                  /\ r.msg.text = "Service tier non disponible pour le modele"
                  /\ r.msg.tier = tier
                  /\ r.msg.model = model
                  /\ r.msg.available =
                        [i \in 1..Len(PRICINGS[model]) |-> PRICINGS[model][i].tier]

\* C10 witness: the resolver has refused a tier that gpt-5-nano does not have,
\* naming the two it has.
C10_Witness ==
    /\ last.op = "_get_pricing"
    /\ last.args = <<gpt_5_nano, "priority">>
    /\ ~last.result.ok
    /\ last.result.msg.available = <<"default", "flex">>

\* The arguments of the last get_price.
LastResponse == last.args[1]

LastProvider == last.args[2]

LastSttName == last.args[3]

\* The last call was get_price of an OpenAI Response object with all its
\* attributes, routed to the OpenAI calculator.
LastIsLLM ==
    /\ last.op = "get_price"
    /\ LastProvider \in {NoneStr, "openai"}
    /\ LastResponse.cls = "Response"
    /\ LastResponse.attrs = {"model", "service_tier", "usage"}

\* The last call was get_price of {"usage": {"seconds": ..}} with a model
\* name, routed to the OpenAI calculator.
LastIsSTT ==
    /\ last.op = "get_price"
    /\ LastProvider \in {NoneStr, "openai"}
    /\ LastResponse.cls = "dict"
    /\ LastResponse.attrs = {}
    /\ "usage" \in LastResponse.keys
    /\ "seconds" \in LastResponse.usage.keys
    /\ LastSttName # NoneName

\* The last call was get_price of a response with usage_metadata, routed to
\* the Gemini calculator.
LastIsGemini ==
    /\ last.op = "get_price"
    /\ LastProvider \in {NoneStr, "gemini"}
    /\ "usage_metadata" \in LastResponse.attrs

\* p carries the rates of the record if `items` has under the key "default".
HasDefaultRates(p, items) ==
    /\ p.input_pricing = Lookup(items, "default").input
    /\ p.input_cached_pricing = OrZero(Lookup(items, "default").input_cached)
    /\ p.output_pricing = OrZero(Lookup(items, "default").output)

\* C11: with no tier given, the "default" record is the one applied: an OpenAI
\* Response whose service_tier is None is priced with its model's "default"
\* record, an STT record with its model's "default" record, and a Gemini
\* response with the "default" record of a Gemini model.
C11_UnspecifiedTierIsDefault ==
    /\ LastIsLLM /\ LastResponse.service_tier = NoneStr
       /\ StripDate(LastResponse.model) \in DOMAIN PRICINGS
       => /\ last.result.ok
          /\ HasDefaultRates(last.result.value,
                             PRICINGS[StripDate(LastResponse.model)])
    /\ LastIsSTT /\ StripDate(LastSttName) \in DOMAIN PRICINGS
       => /\ last.result.ok
          /\ HasDefaultRates(last.result.value, PRICINGS[StripDate(LastSttName)])
    /\ LastIsGemini
       => /\ last.result.ok
          /\ \E m \in DOMAIN GEMINI_PRICINGS :
                HasDefaultRates(last.result.value, GEMINI_PRICINGS[m])

\* C12: the Gemini resolver returns a record for every model name: the
\* "default" record of the name when it is a key of the Gemini table, the
\* gemini-3-pro-preview record (2.00, 12.00) for any other name that contains
\* "pro", the gemini-3-flash-preview record (0.50, 3.00) for every remaining
\* name.
C12_GeminiResolutionLenientAndTotal ==
    last.op = "gemini._get_pricing" =>
        /\ last.result.ok
        /\ last.args[1] \in DOMAIN GEMINI_PRICINGS
           => last.result.value = Lookup(GEMINI_PRICINGS[last.args[1]], "default")
        /\ last.args[1] \notin DOMAIN GEMINI_PRICINGS
           /\ Contains(last.args[1], <<"p", "r", "o">>)
           => last.result.value = MP(Dec(200, 100), None, Dec(1200, 100))
        /\ last.args[1] \notin DOMAIN GEMINI_PRICINGS
           /\ ~Contains(last.args[1], <<"p", "r", "o">>)
           => last.result.value = MP(Dec(50, 100), None, Dec(300, 100))

\* C12 witness: the Gemini resolver has resolved gpt-5-pro, no key of its
\* table, to the pro record, under a tier the table does not have.
C12_Witness ==
    /\ last.op = "gemini._get_pricing"
    /\ last.args = <<gpt_5_pro, "flex">>
    /\ last.result = Return(MP(Dec(200, 100), None, Dec(1200, 100)))

\* C12 witness of the last fallback: made-up-model has resolved to the flash
\* record.
C12_WitnessFlash ==
    /\ last.op = "gemini._get_pricing"
    /\ last.args[1] = made_up_model
    /\ last.result = Return(MP(Dec(50, 100), None, Dec(300, 100)))

\* Whether name is some m followed by a suffix -YYYY-MM-DD, and that m.
EndsInDate(name) ==
    name # NoneName /\ MatchesDate(name, Len(name) - DateSuffixLen)

Undated(name) ==
    IF EndsInDate(name) THEN SubSeq(name, 1, Len(name) - DateSuffixLen) ELSE name

\* The model name that the calculators read in the last call: the response's
\* model when it has one, otherwise stt_model_name.
LastModel ==
    IF "model" \in LastResponse.attrs THEN LastResponse.model ELSE LastSttName

\* What get_price gives for the response of the last call with the date suffix
\* taken off its model name.
LastUndatedResult ==
    get_price([LastResponse EXCEPT !.model = Undated(@)], LastProvider,
              Undated(LastSttName))

\* C13 as stated: for every model name m and every suffix -YYYY-MM-DD, pricing
\* a response whose model is m followed by the suffix gives the same result
\* (price record or error) as pricing the same response with model m, on the
\* OpenAI path and on the Gemini path.
C13_DatedNameIsPricedAsUndated ==
    last.op = "get_price" /\ EndsInDate(LastModel)
    => last.result = LastUndatedResult

\* C13 amended: the same, on the OpenAI path only for a name m that does not
\* itself end in a date suffix (one suffix is stripped, not every suffix), on
\* the Gemini path for every m.
C13_OneDateSuffixIsStripped ==
    /\ last.op = "get_price"
    /\ EndsInDate(LastModel)
    /\ LastIsGemini \/ ~EndsInDate(Undated(LastModel))
    => last.result = LastUndatedResult

\* C13 witness: an OpenAI response of gpt-5-2025-04-14 has been priced with a
\* record of gpt-5.
C13_Witness ==
    /\ LastIsLLM
    /\ LastResponse.model = gpt_5 \o DateSuffix
    /\ last.result.ok
    /\ last.result.value.input_pricing =
          Lookup(PRICINGS[gpt_5], LastResponse.service_tier).input

\* C13 witness on the Gemini path: a response of the dated flash model has
\* been priced with the flash record.
C13_WitnessGemini ==
    /\ LastIsGemini
    /\ LastResponse.model = gemini_3_flash_preview \o DateSuffix
    /\ last.result.ok
    /\ last.result.value.input_pricing = Dec(50, 100)

\* What each calculator gives for the arguments of the last call.
LastByGemini == Gemini_get_price(LastResponse)

LastByOpenAI == OpenAI_get_price(LastResponse, LastSttName)

\* C14: without a provider, the first matching rule decides: a response with
\* usage_metadata goes to the Gemini calculator whatever else it has;
\* otherwise one with service_tier, or an OpenAI Response, goes to the OpenAI
\* calculator; otherwise a dict with a "usage" key goes to the OpenAI
\* calculator.  With a provider, "openai" or "gemini", the calculator of that
\* name is called whatever the shape of the response.
C14_FirstMatchingRuleDecides ==
    last.op = "get_price" =>
        /\ LastProvider = "openai" => last.result = LastByOpenAI
        /\ LastProvider = "gemini" => last.result = LastByGemini
        /\ LastProvider = NoneStr /\ "usage_metadata" \in LastResponse.attrs
           => last.result = LastByGemini
        /\ LastProvider = NoneStr /\ "usage_metadata" \notin LastResponse.attrs
           /\ ("service_tier" \in LastResponse.attrs \/ LastResponse.cls = "Response")
           => last.result = LastByOpenAI
        /\ LastProvider = NoneStr /\ "usage_metadata" \notin LastResponse.attrs
           /\ "service_tier" \notin LastResponse.attrs
           /\ LastResponse.cls = "dict" /\ "usage" \in LastResponse.keys
           => last.result = LastByOpenAI

\* C14 witness: a response with usage_metadata, service_tier, model and usage,
\* which the two calculators price differently, has been priced without a
\* provider, by the Gemini calculator.
C14_Witness ==
    /\ last.op = "get_price"
    /\ LastProvider = NoneStr
    /\ {"usage_metadata", "service_tier"} \subseteq LastResponse.attrs
    /\ LastByGemini.ok /\ LastByOpenAI.ok
    /\ LastByGemini # LastByOpenAI
    /\ last.result = LastByGemini

\* C14 witness of the explicit provider: the same response has been priced by
\* the OpenAI calculator because the caller said "openai".
C14_WitnessExplicit ==
    /\ last.op = "get_price"
    /\ LastProvider = "openai"
    /\ "usage_metadata" \in LastResponse.attrs
    /\ LastByGemini.ok /\ LastByOpenAI.ok
    /\ LastByGemini # LastByOpenAI
    /\ last.result = LastByOpenAI

\* C14 witness of the third rule at a dict that also has usage_metadata as an
\* attribute: it has gone to the Gemini calculator, not to the STT pricing.
C14_WitnessRecord ==
    /\ last.op = "get_price"
    /\ LastProvider = NoneStr
    /\ LastResponse.cls = "dict" /\ "usage" \in LastResponse.keys
    /\ "usage_metadata" \in LastResponse.attrs
    /\ LastByOpenAI.ok
    /\ last.result = LastByGemini /\ last.result # LastByOpenAI

\* The last call was get_price, without a provider, of a dict that has a
\* "usage" key whose value has no "seconds" key, and no attribute that an
\* earlier detection rule reads.
LastIsTokenRecord ==
    /\ last.op = "get_price"
    /\ LastProvider = NoneStr
    /\ LastResponse.cls = "dict"
    /\ LastResponse.attrs = {}
    /\ "usage" \in LastResponse.keys
    /\ "seconds" \notin LastResponse.usage.keys

\* C15: a dict with a usage sub-record that has no seconds is priced as token
\* usage: the call returns an aggregate that carries the token counts of the
\* usage sub-record.
C15_TokenRecordIsPricedAsTokens ==
    LastIsTokenRecord /\ "input_tokens" \in LastResponse.usage.keys
    => /\ last.result.ok
       /\ last.result.value.output_tokens = LastResponse.usage.output_tokens

\* The last call was get_price, without a provider, of a response that no
\* detection rule matches.
LastIsUndetected ==
    /\ last.op = "get_price"
    /\ LastProvider = NoneStr
    /\ "usage_metadata" \notin LastResponse.attrs
    /\ "service_tier" \notin LastResponse.attrs
    /\ LastResponse.cls # "Response"
    /\ ~(LastResponse.cls = "dict" /\ "usage" \in LastResponse.keys)

\* C16: when no detection rule matches, get_price raises the
\* provider-detection ValueError, which is the outcome of neither calculator,
\* and the caller has no aggregate from the call.
C16_UndetectedProviderRaises ==
    LastIsUndetected
    => /\ last.result =
             Raise("ValueError",
                   [text |-> "Impossible de determiner le fournisseur"])
       /\ last.result # LastByOpenAI
       /\ last.result # LastByGemini

\* C16 witness: a dict without a "usage" key has been refused, although the
\* caller gave a model name that the OpenAI calculator would have looked up.
C16_Witness ==
    /\ LastIsUndetected
    /\ LastResponse.cls = "dict"
    /\ LastSttName = whisper_1
    /\ ~last.result.ok
    /\ last.result.error = "ValueError"
    /\ LastByOpenAI.error = "KeyError"

\* The last call was get_price of a response without a model attribute, which
\* went to the OpenAI calculator, by the provider given or by detection.
LastIsOpenAIWithoutModel ==
    /\ last.op = "get_price"
    /\ "model" \notin LastResponse.attrs
    /\ \/ LastProvider = "openai"
       \/ /\ LastProvider = NoneStr
          /\ "usage_metadata" \notin LastResponse.attrs
          /\ \/ "service_tier" \in LastResponse.attrs
             \/ LastResponse.cls = "Response"
             \/ LastResponse.cls = "dict" /\ "usage" \in LastResponse.keys

\* C17: an OpenAI response without a model attribute and without
\* stt_model_name raises the missing-model-name ValueError, whatever else the
\* response holds or lacks (the name is checked before anything is looked up
\* or read); with a name, a call that returns has read usage.seconds as the
\* duration: its aggregate is from_duration's for those seconds and the
\* "default" record of the named model.
C17_MissingModelNameRaisesFirst ==
    LastIsOpenAIWithoutModel =>
        /\ LastSttName = NoneName
           => last.result = Raise("ValueError", MissingModelMessage)
        /\ LastSttName # NoneName /\ last.result.ok
           => /\ "seconds" \in LastResponse.usage.keys
              /\ IsDurationPrice(last.result.value,
                                 Lookup(PRICINGS[StripDate(LastSttName)], "default"),
                                 LastResponse.usage.seconds)
              /\ last.result.value.input_tokens = FTrunc(LastResponse.usage.seconds)

\* C17 witness: a dict whose usage has no seconds, priced without a name, has
\* raised the missing-model-name error and not the KeyError of the read.
C17_Witness ==
    /\ LastIsOpenAIWithoutModel
    /\ LastSttName = NoneName
    /\ "seconds" \notin LastResponse.usage.keys
    /\ last.result = Raise("ValueError", MissingModelMessage)

\* C17 witness of the second half: seconds have been priced for a named model.
C17_WitnessNamed ==
    /\ LastIsOpenAIWithoutModel
    /\ LastSttName # NoneName
    /\ last.result.ok
    /\ FPos(last.result.value.input_price)

\* getattr(usage, name, 0) for the two counts of usage_metadata
PromptTokenCount(usage) ==
    IF "prompt_token_count" \in usage.attrs THEN usage.prompt_token_count ELSE 0

CandidatesTokenCount(usage) ==
    IF "candidates_token_count" \in usage.attrs
    THEN usage.candidates_token_count ELSE 0

\* C18: the Gemini calculator returns, for every response with usage_metadata,
\* an aggregate with input_tokens = prompt_token_count, output_tokens =
\* candidates_token_count (0 for a count the container lacks), no cached
\* tokens, no cached price and a cached rate of 0; a response without a model
\* attribute is priced at the rates of gemini-3-flash-preview (0.50, 3.00).
C18_GeminiAggregate ==
    LastIsGemini =>
        /\ last.result.ok
        /\ last.result.value.input_tokens = PromptTokenCount(LastResponse.usage_metadata)
        /\ last.result.value.output_tokens = CandidatesTokenCount(LastResponse.usage_metadata)
        /\ last.result.value.input_cached_tokens = 0
        /\ last.result.value.input_cached_price = FZero
        /\ last.result.value.input_cached_pricing = FZero
        /\ "model" \notin LastResponse.attrs
           => /\ last.result.value.input_pricing = Dec(50, 100)
              /\ last.result.value.output_pricing = Dec(300, 100)
              /\ last.result.value.input_price =
                    FMul(IntDivInt(last.result.value.input_tokens, PerMillion),
                         Dec(50, 100))
              /\ last.result.value.output_price =
                    FMul(IntDivInt(last.result.value.output_tokens, PerMillion),
                         Dec(300, 100))

\* C18 witness: a Gemini response without a model attribute, with different
\* prompt and candidate counts, has been priced.
C18_Witness ==
    /\ LastIsGemini
    /\ "model" \notin LastResponse.attrs
    /\ last.result.ok
    /\ last.result.value.input_tokens = 1
    /\ last.result.value.output_tokens = MaxTokens
    /\ FPos(last.result.value.output_price)

\* C18 witness of the absent count: a usage_metadata without
\* candidates_token_count has given 0 output tokens.
C18_WitnessAbsentCount ==
    /\ LastIsGemini
    /\ "candidates_token_count" \notin LastResponse.usage_metadata.attrs
    /\ last.result.ok
    /\ last.result.value.input_tokens = MaxTokens
    /\ last.result.value.output_tokens = 0

ExactScales == {k \in 0..MaxScale : k = 0 \/ \E n \in 0..MaxScale : k = Pow2(n)}

\* from_tokens of k times the token counts of the last from_tokens call
LastScaled(k) ==
    from_tokens(last.args[1], k * last.args[2], k * last.args[3], k * last.args[4])

\* C20 as stated: for every non-negative integer k, total_price of from_tokens
\* on k times the counts == k * total_price of from_tokens on the counts.
C20_TotalScalesWithEveryFactor ==
    last.op = "from_tokens" =>
        \A k \in 0..MaxScale :
            LastScaled(k).total_price = IntMulF(k, last.result.value.total_price)

\* C20 amended: the equality is exact when k is 0 or a power of two, and the
\* token counts of the aggregate scale by every k.
C20_TotalScalesWithPowersOfTwo ==
    last.op = "from_tokens" =>
        /\ \A k \in ExactScales :
              LastScaled(k).total_price = IntMulF(k, last.result.value.total_price)
        /\ \A k \in 0..MaxScale :
              /\ LastScaled(k).input_tokens = k * last.result.value.input_tokens
              /\ LastScaled(k).input_cached_tokens =
                    k * last.result.value.input_cached_tokens
              /\ LastScaled(k).output_tokens = k * last.result.value.output_tokens

\* C20 witness: from_tokens has priced a usage with a positive total whose
\* double costs twice as much and whose triple does not cost three times as
\* much.
C20_Witness ==
    /\ last.op = "from_tokens"
    /\ FPos(last.result.value.total_price)
    /\ LastScaled(2).total_price = IntMulF(2, last.result.value.total_price)
    /\ LastScaled(2).total_price # last.result.value.total_price
    /\ \E k \in 0..MaxScale :
          LastScaled(k).total_price # IntMulF(k, last.result.value.total_price)

----------------------------------------------------------------------------
(* from_tokens over whole ranges of token counts *)

\* Price records with every combination of absent fields: one with all three
\* rates, one without a cached rate, one without cached and output rates, one
\* in another currency without an output rate.
PriceRecords ==
    { Lookup(PRICINGS[gpt_4_1_nano], "default"),
      Lookup(PRICINGS[gpt_5_pro], "default"),
      Lookup(PRICINGS[whisper_1], "default"),
      EuroPricing }

AllTokenCounts == {0, 1, MaxTokens}

\* from_tokens never raises, so each call fills a variable of the caller, who
\* stops when it has none left.
NextTokens ==
    /\ \E s \in Slots : prices[s] = None
    /\ \E mp \in PriceRecords, i \in AllTokenCounts, c \in AllTokenCounts, o \in AllTokenCounts :
          FromTokens(mp, i, c, o)

\* A caller that prices token counts with from_tokens.
SpecTokens == Init /\ [][NextTokens]_vars

\* C21: from_tokens with input_tokens = input_cached_tokens = output_tokens = 0
\* returns, for every price record, with or without a cached and an output
\* rate, an aggregate whose input_price, input_cached_price, output_price and
\* total_price are 0.
C21_ZeroTokensCostNothing ==
    last.op = "from_tokens" /\ last.args[2] = 0 /\ last.args[3] = 0 /\ last.args[4] = 0
    => /\ last.result.ok
       /\ last.result.value.input_price = FZero
       /\ last.result.value.input_cached_price = FZero
       /\ last.result.value.output_price = FZero
       /\ last.result.value.total_price = FZero

\* C21 witness: from_tokens has priced zero tokens with a record that has
\* neither a cached nor an output rate, and with one that has all three.
C21_Witness ==
    /\ last.op = "from_tokens"
    /\ <<last.args[2], last.args[3], last.args[4]>> = <<0, 0, 0>>
    /\ last.args[1].input_cached = None /\ last.args[1].output = None
    /\ last.result.value.total_price = FZero
    /\ \E s \in Slots :
          /\ prices[s] # None
          /\ prices[s].output_pricing = Dec(40, 100)
          /\ prices[s].output_tokens = 0
          /\ prices[s].total_price = FZero

\* x and y are the same float or neighbouring floats: they differ by at most
\* one unit in the last place of the one with the larger exponent.
Near(x, y) ==
    IF x.e >= y.e
    THEN Abs(x.m * Pow2(x.e - y.e) - y.m) <= Pow2(x.e - y.e)
    ELSE Abs(y.m * Pow2(y.e - x.e) - x.m) <= Pow2(y.e - x.e)

\* C22: get_price of scenario A returns 800 input tokens at 0.10 per million
\* (0.00008), 200 cached tokens at 0.025 per million (0.000005), 50 output
\* tokens at 0.40 per million (0.00002), quantity 1, and a total_price that is
\* the float sum of the three prices and is 0.000105 to the last place.
C22_ScenarioA ==
    last.op = "get_price" /\ LastResponse = ScenarioA =>
        /\ last.result.ok
        /\ last.result.value.input_tokens = 800
        /\ last.result.value.input_cached_tokens = 200
        /\ last.result.value.output_tokens = 50
        /\ last.result.value.input_pricing = Dec(10, 100)
        /\ last.result.value.input_cached_pricing = Dec(25, 1000)
        /\ last.result.value.output_pricing = Dec(40, 100)
        /\ last.result.value.input_price = Dec(8, 100000)
        /\ last.result.value.input_cached_price = Dec(5, 1000000)
        /\ last.result.value.output_price = Dec(2, 100000)
        /\ last.result.value.total_price =
              FAdd(FAdd(last.result.value.input_price,
                        last.result.value.input_cached_price),
                   last.result.value.output_price)
        /\ Near(last.result.value.total_price, Dec(105, 1000000))
        /\ last.result.value.quantity = 1
        /\ last.result.value.currency = "dollar"

\* C22 witness: scenario A has been priced, into a variable of the caller.
C22_Witness ==
    /\ last.op = "get_price"
    /\ LastResponse = ScenarioA
    /\ last.result.ok
    /\ last.result.value.total_price = Dec(105, 1000000)
    /\ \E s \in Slots : prices[s] = last.result.value

----------------------------------------------------------------------------
(* Rendering aggregates *)

\* Most decimal places a caller asks for, besides the default.
MaxDecimalPlaces == 3

DecimalPlaces == 0..MaxDecimalPlaces \cup {DefaultDecimalPlaces}

\* ResponsePrice(...) with the four prices, the symbol and the quantity given
\* and every other field left at 0.
Priced(input_price, input_cached_price, output_price, total_price, currency_symbol, quantity) ==
    ResponsePrice(input_price, input_cached_price, output_price, total_price,
                  0, 0, 0, FZero, FZero, FZero,
                  "dollar", currency_symbol, quantity)

\* The aggregate that get_price returns for a response with more cached
\* tokens than input tokens: its input price is negative.
NegativeInput ==
    from_tokens(Lookup(PRICINGS[gpt_4_1_nano], "priority"),
                1 - MaxTokens, MaxTokens, 0)

\* The aggregates that are rendered: with all, some and none of the
\* components, one call and several, a total of 0 beside a positive
\* component, the aggregate of 0.00008 + 0.00002 = 0.0001, negative prices.
RenderInputs ==
    { Priced(Dec(5, 10), Dec(25, 100), Dec(25, 100), Dec(1, 1), "$", 1),
      Priced(Dec(10, 1), FZero, Dec(25, 10), FAdd(Dec(10, 1), Dec(25, 10)), "$", 2),
      Priced(FZero, FZero, FZero, FZero, "$", 1),
      Priced(Dec(75, 100), FZero, Dec(25, 100), Dec(1, 1), "EUR", MaxQuantity),
      Priced(FZero, Dec(1, 1), FZero, Dec(1, 1), "$", 1),
      Priced(Dec(8, 100000), FZero, Dec(2, 100000), Dec(1, 10000), "$", 1),
      Priced(Dec(1, 1), FZero, Dec(3, 1), FZero, "$", 1),
      Priced(Dec(1, 1), FZero, Dec(12, 1), Dec(13, 1), "$", 1),
      Priced(Dec(-5, 10), Dec(75, 100), FZero, Dec(25, 100), "$", 2),
      NegativeInput }

\* The values given to format_price alone.
FormatValues ==
    { FZero, Dec(1, 1), Dec(10, 1), Dec(12, 1), Dec(20, 1), Dec(25, 10),
      Dec(5, 10), Dec(625, 1000), Dec(375, 1000), Dec(1, 8), Dec(1, 1024),
      Dec(15, 16), Dec(9, 1), Dec(1, 10), Dec(8, 100000), Dec(7, 2),
      Dec(11, 64), Dec(13, 1), Dec(3, 1000), Dec(15, 100) }

\* price._format_human_readable(decimal_places), which display prints and
\* __str__ returns for the default decimal_places
Render(self, decimal_places) ==
    /\ last' = [op |-> "render", args |-> <<self, decimal_places>>,
                result |-> Return(format_human_readable(self, decimal_places))]
    /\ UNCHANGED <<tables, prices, folded, threads, stt>>

\* The step format_price(value) of a rendering
FormatPrice(value, decimal_places) ==
    /\ last' = [op |-> "format_price", args |-> <<value, decimal_places>>,
                result |-> Return(format_price(value, decimal_places))]
    /\ UNCHANGED <<tables, prices, folded, threads, stt>>

NextRender ==
    \/ \E self \in RenderInputs, d \in DecimalPlaces : Render(self, d)
    \/ \E value \in FormatValues, d \in DecimalPlaces : FormatPrice(value, d)

\* A caller that renders aggregates.
SpecRender == Init /\ [][NextRender]_vars

\* The place of the first occurrence of sub in s, 0 when there is none.
IndexOf(s, sub) ==
    IF Contains(s, sub)
    THEN CHOOSE i \in 1..Len(s) :
            /\ SubSeq(s, i, i + Len(sub) - 1) = sub
            /\ \A j \in 1..(i - 1) : SubSeq(s, j, j + Len(sub) - 1) # sub
    ELSE 0

\* s.endswith(suffix)
EndsWith(s, suffix) ==
    /\ Len(s) >= Len(suffix)
    /\ SubSeq(s, Len(s) - Len(suffix) + 1, Len(s)) = suffix

\* The texts that mark the components, the total and the suffix of a rendering.
InputTag == <<" ", "(", "i", "n", "p", "u", "t", ",", " ">>

CachedTag == <<" ", "(", "c", "a", "c", "h", "e", "d", ",", " ">>

OutputTag == <<" ", "(", "o", "u", "t", "p", "u", "t", ",", " ">>

TotalTag == <<" ", "t", "o", "t", "a", "l">>

CallsTag == <<" ", "(", "x">>

\* a occurs in s before b does, or one of them does not occur
InOrder(s, a, b) ==
    Contains(s, a) /\ Contains(s, b) => IndexOf(s, a) < IndexOf(s, b)

\* C23: the rendering names the input, cached and output components in that
\* order, names a component exactly when its price is not 0, puts the total
\* after the components, and carries the suffix of the calls exactly when
\* quantity > 1.
C23_RenderListsNonzeroComponents ==
    last.op = "render" =>
        /\ Contains(last.result.value, InputTag)
           <=> last.args[1].input_price # FZero
        /\ Contains(last.result.value, CachedTag)
           <=> last.args[1].input_cached_price # FZero
        /\ Contains(last.result.value, OutputTag)
           <=> last.args[1].output_price # FZero
        /\ InOrder(last.result.value, InputTag, CachedTag)
        /\ InOrder(last.result.value, CachedTag, OutputTag)
        /\ InOrder(last.result.value, InputTag, OutputTag)
        /\ Contains(last.result.value, TotalTag)
        /\ InOrder(last.result.value, InputTag, TotalTag)
        /\ InOrder(last.result.value, CachedTag, TotalTag)
        /\ InOrder(last.result.value, OutputTag, TotalTag)
        /\ Contains(last.result.value, CallsTag) <=> last.args[1].quantity > 1
        /\ last.args[1].quantity <= 1 => EndsWith(last.result.value, TotalTag)
        /\ InOrder(last.result.value, TotalTag, CallsTag)

\* The digits of a decimal text before its point (the whole text when it has
\* no point) and those after it.
IntegerPart(s) ==
    IF Contains(s, <<".">>) THEN SubSeq(s, 1, IndexOf(s, <<".">>) - 1) ELSE s

FractionPart(s) ==
    IF Contains(s, <<".">>) THEN SubSeq(s, IndexOf(s, <<".">>) + 1, Len(s)) ELSE <<>>

\* t is s followed by zeros only
ZeroExtends(s, t) ==
    /\ Len(t) >= Len(s)
    /\ SubSeq(t, 1, Len(s)) = s
    /\ \A i \in (Len(s) + 1)..Len(t) : t[i] = "0"

\* Two decimal texts denote the same number: the same integer part, and
\* fraction parts that differ by trailing zeros only.
SameNumber(s, t) ==
    /\ IntegerPart(s) = IntegerPart(t)
    /\ IntegerPart(s) # <<>>
    /\ \/ ZeroExtends(FractionPart(s), FractionPart(t))
       \/ ZeroExtends(FractionPart(t), FractionPart(s))

\* C24: for a value >= 0 and decimal_places >= 0 the formatted text has a
\* point followed by at least one digit, no trailing zero beyond that digit,
\* denotes the number of the fixed rendering, and keeps its integer part.
C24_FormatKeepsTheNumber ==
    (last.op = "format_price" /\ last.args[1].m >= 0 /\ last.args[2] >= 0) =>
        /\ Contains(last.result.value, <<".">>)
        /\ FractionPart(last.result.value) # <<>>
        /\ Len(FractionPart(last.result.value)) > 1
           => ~EndsWith(last.result.value, <<"0">>)
        /\ SameNumber(last.result.value, Fixed(last.args[1], last.args[2]))
        /\ IntegerPart(last.result.value)
           = IntegerPart(Fixed(last.args[1], last.args[2]))

\* The percentages a rendering may show.
MaxPercentage == 400

Percentages == (0 - MaxPercentage)..MaxPercentage

\* p is the integer nearest to the float q, the even one of two equally near.
RoundsTo(q, p) ==
    IF q.e >= 0
    THEN p = q.m * Pow2(q.e)
    ELSE /\ 2 * Abs(q.m - p * Pow2(0 - q.e)) <= Pow2(0 - q.e)
         /\ 2 * Abs(q.m - p * Pow2(0 - q.e)) = Pow2(0 - q.e) => p % 2 = 0

\* The rendering s shows percentage p behind the tag of a component.
ShowsPercentage(s, tag, p) ==
    Contains(s, tag \o IntStr(p) \o <<"%", ")">>)

\* The rendering s shows, for a component of price value, the rounded
\* 100 * value / total, and 0 when the total is 0.
ShowsShare(s, tag, value, total) ==
    IF total = FZero
    THEN ShowsPercentage(s, tag, 0)
    ELSE \E p \in Percentages :
            /\ RoundsTo(FDiv(IntMulF(100, value), total), p)
            /\ ShowsPercentage(s, tag, p)

\* The aggregate of the rendering example: 0.00008 of input, 0.00002 of
\* output, 0.0001 in total.
RenderExample == Priced(Dec(8, 100000), FZero, Dec(2, 100000), Dec(1, 10000), "$", 1)

\* C25: a rendering returns a text (no division by zero), every component it
\* displays carries round(100 * component / total_price), 0 when total_price
\* is 0, and the example aggregate shows 80% of input and 20% of output.
C25_PercentageIsRoundedShare ==
    last.op = "render" =>
        /\ last.result.ok
        /\ FPos(last.args[1].input_price)
           => ShowsShare(last.result.value, InputTag, last.args[1].input_price, last.args[1].total_price)
        /\ FPos(last.args[1].input_cached_price)
           => ShowsShare(last.result.value, CachedTag, last.args[1].input_cached_price, last.args[1].total_price)
        /\ FPos(last.args[1].output_price)
           => ShowsShare(last.result.value, OutputTag, last.args[1].output_price, last.args[1].total_price)
        /\ last.args[1] = RenderExample
           => /\ ShowsPercentage(last.result.value, InputTag, 80)
              /\ ShowsPercentage(last.result.value, OutputTag, 20)

\* A rendering of the example aggregate with the default number of decimals.
C25_Witness ==
    /\ last.op = "render"
    /\ last.args = <<RenderExample, DefaultDecimalPlaces>>
    /\ ShowsPercentage(last.result.value, InputTag, 80)

\* A rendering of an aggregate whose total is 0 while a component is not.
C25_WitnessZeroTotal ==
    /\ last.op = "render"
    /\ last.args[1].total_price = FZero
    /\ FPos(last.args[1].input_price)
    /\ ShowsPercentage(last.result.value, InputTag, 0)

\* A rendering whose share lies strictly between two integers and is rounded up.
C25_WitnessRoundedUp ==
    /\ last.op = "render"
    /\ FPos(last.args[1].input_price)
    /\ last.args[1].total_price # FZero
    /\ ~ShowsPercentage(last.result.value, InputTag, FTrunc(FDiv(IntMulF(100, last.args[1].input_price), last.args[1].total_price)))

-----------------------------------------------------------------------------
(* Two threads that accumulate into the same aggregate *)

Threads == {1, 2}

\* The fields __iadd__ updates, in the order of its statements.
Fields == <<"input_price", "input_cached_price", "output_price", "total_price", "input_tokens", "input_cached_tokens", "output_tokens", "quantity">>

\* A faulty update that stores back the value it read; C26 must tell it from
\* the code.
FieldSum_keeps_self(f, x, y) == x

\* x + y as `self.f += other.f` computes it: a float sum for a price, an int
\* sum for a count
FieldSum(f, x, y) == IF f \in PriceFields THEN FAdd(x, y) ELSE x + y

\* Positions of a thread in __iadd__: 0 before the currency test, 2k - 1
\* before the read of `self.f += other.f` for the k-th field f, 2k between
\* that read and the write, then Returned, or Raised after the ValueError.
Returned == 2 * Len(Fields) + 1

Raised == Returned + 1

\* The field whose update a thread at position pc is executing.
FieldAt(pc) == Fields[(pc + 1) \div 2]

\* The aggregate the threads share and the operands of the two calls.
SharedAggregate == from_tokens(Lookup(PRICINGS[gpt_4_1_nano], "default"), 0, 1, 0)

Operands ==
    { <<from_tokens(Lookup(PRICINGS[gpt_4_1_nano], "default"), 1, 0, 1),
        from_tokens(Lookup(PRICINGS[gpt_4_1_nano], "default"), 0, 1, 0)>>,
      <<from_tokens(Lookup(PRICINGS[gpt_4_1_nano], "default"), 1, 0, 0),
        from_tokens(EuroPricing, 1, 0, 0)>> }

\* Two threads are handed the same aggregate and one operand each; the caller
\* wraps the calls in a lock of its own (serialized) or does not.
StartThreads(self, others, serialized) ==
    /\ ~threads.started
    /\ threads' = [started |-> TRUE, serialized |-> serialized,
                   start |-> self, self |-> self, other |-> others,
                   pc |-> <<0, 0>>, reg |-> <<<<>>, <<>>>>]
    /\ UNCHANGED <<tables, prices, folded, last, stt>>

\* Thread t is inside __iadd__.
Running(t) == threads.started /\ threads.pc[t] \in 1..(Returned - 1)

\* The currency test of __iadd__; under a caller's lock a call begins only
\* while no other call is inside.
CheckCurrency(t) ==
    /\ threads.started
    /\ threads.pc[t] = 0
    /\ threads.serialized => \A u \in Threads \ {t} : ~Running(u)
    /\ threads' = [threads EXCEPT !.pc[t] =
                      IF threads.self.currency # threads.other[t].currency
                      THEN Raised ELSE 1]
    /\ UNCHANGED <<tables, prices, folded, last, stt>>

\* The read of self.f in `self.f += other.f`
ReadField(t) ==
    /\ Running(t)
    /\ threads.pc[t] % 2 = 1
    /\ threads' = [threads EXCEPT
                      !.reg[t] = <<threads.self[FieldAt(threads.pc[t])]>>,
                      !.pc[t] = @ + 1]
    /\ UNCHANGED <<tables, prices, folded, last, stt>>

\* The write of self.f in `self.f += other.f`
WriteField(t) ==
    /\ Running(t)
    /\ threads.pc[t] % 2 = 0
    /\ threads' = [threads EXCEPT
                      !.self[FieldAt(threads.pc[t])] =
                          FieldSum(FieldAt(threads.pc[t]), threads.reg[t][1],
                                   threads.other[t][FieldAt(threads.pc[t])]),
                      !.reg[t] = <<>>,
                      !.pc[t] = @ + 1]
    /\ UNCHANGED <<tables, prices, folded, last, stt>>

NextThreads ==
    \/ \E others \in Operands, serialized \in BOOLEAN :
          StartThreads(SharedAggregate, others, serialized)
    \/ \E t \in Threads : CheckCurrency(t)
    \/ \E t \in Threads : ReadField(t)
    \/ \E t \in Threads : WriteField(t)

SpecThreads == Init /\ [][NextThreads]_vars

\* Both calls have ended.
AllDone == threads.started /\ \A t \in Threads : threads.pc[t] \in {Returned, Raised}

\* The aggregate after the two calls run one after the other, thread `first`
\* before thread `second`.
Sequential(first, second) ==
    ResponsePrice_iadd(ResponsePrice_iadd(threads.start, threads.other[first]).self, threads.other[second]).self

\* C26 (as far as it holds): when the caller serializes the two calls, at most
\* one thread is inside __iadd__ at a time and the aggregate ends as one of the
\* two sequential orders leaves it, on every field; without serialization
\* every field still ends as the start value plus one operand's field or as a
\* sequential order leaves it, so a lost update is the only damage.
C26_SerializedCallsLoseNothing ==
    /\ (threads.started /\ threads.serialized)
       => ~(Running(1) /\ Running(2))
    /\ (AllDone /\ threads.serialized)
       => threads.self \in {Sequential(1, 2), Sequential(2, 1)}
    /\ (AllDone /\ ~threads.serialized)
       => \A i \in 1..Len(Fields) :
             threads.self[Fields[i]] \in
                { Sequential(1, 2)[Fields[i]], Sequential(2, 1)[Fields[i]],
                  ResponsePrice_iadd(threads.start, threads.other[1]).self[Fields[i]],
                  ResponsePrice_iadd(threads.start, threads.other[2]).self[Fields[i]] }

\* Serialized calls of equal currency have both returned.
C26_Witness ==
    /\ AllDone
    /\ threads.serialized
    /\ \A t \in Threads : threads.pc[t] = Returned
    /\ threads.self = Sequential(1, 2)
    /\ threads.self # threads.start

\* Unserialized calls have both returned and one call's quantity is lost.
C26_WitnessLostUpdate ==
    /\ AllDone
    /\ ~threads.serialized
    /\ \A t \in Threads : threads.pc[t] = Returned
    /\ threads.self.quantity # Sequential(1, 2).quantity

\* Unserialized calls have both returned, the three components hold both
\* updates and the total holds one only.
C26_WitnessTornTotal ==
    /\ AllDone
    /\ ~threads.serialized
    /\ \A t \in Threads : threads.pc[t] = Returned
    /\ threads.self.input_price = Sequential(1, 2).input_price
    /\ threads.self.input_cached_price = Sequential(1, 2).input_cached_price
    /\ threads.self.output_price = Sequential(1, 2).output_price
    /\ threads.self.total_price # Sequential(1, 2).total_price
    /\ threads.self.total_price # Sequential(2, 1).total_price

\* C26 as stated: serialized calls end as the sequential result and with
\* total_price == input_price + input_cached_price + output_price.
C26_SerializedKeepsTotalExact ==
    (AllDone /\ threads.serialized) =>
        /\ threads.self \in {Sequential(1, 2), Sequential(2, 1)}
        /\ threads.self.total_price
           = FAdd(FAdd(threads.self.input_price, threads.self.input_cached_price),
                  threads.self.output_price)

-----------------------------------------------------------------------------
(* The Gemini calculator against from_tokens *)

\* The record the Gemini calculator resolves for the response of the last call.
LastGeminiRecord ==
    Gemini_get_pricing(IF "model" \in LastResponse.attrs
                       THEN LastResponse.model ELSE gemini_3_flash_preview,
                       "default")

\* from_tokens of that record and of the two counts of the response.
LastGeminiFromTokens ==
    from_tokens(LastGeminiRecord, PromptTokenCount(LastResponse.usage_metadata),
                0, CandidatesTokenCount(LastResponse.usage_metadata))

\* C27: for every Gemini response the aggregate of the Gemini calculator equals
\* from_tokens(resolved record, prompt_token_count, 0, candidates_token_count)
\* on every field.
C27_GeminiEqualsFromTokens ==
    LastIsGemini =>
        /\ last.result.ok
        /\ last.result.value = LastGeminiFromTokens

-----------------------------------------------------------------------------
(* The billing mode of the OpenAI calculator *)

\* The last call was get_price of a response routed to the OpenAI calculator.
LastIsOpenAI ==
    /\ last.op = "get_price"
    /\ \/ LastProvider = "openai"
       \/ /\ LastProvider = NoneStr
          /\ "usage_metadata" \notin LastResponse.attrs
          /\ \/ "service_tier" \in LastResponse.attrs
             \/ LastResponse.cls = "Response"
             \/ LastResponse.cls = "dict" /\ "usage" \in LastResponse.keys

\* The names a caller may pass as stt_model_name.
SttNames == {NoneName, whisper_1, gpt_4_1_nano, made_up_model}

\* C28: the OpenAI calculator prices a response that has a model attribute by
\* its tokens, at the rates of the response's own model and service_tier,
\* whatever stt_model_name the caller passes; it prices a response without a
\* model attribute by its seconds, at the default-tier rates of the name the
\* caller passes.
C28_ModelAttributeDecidesMode ==
    LastIsOpenAI =>
        /\ "model" \in LastResponse.attrs
           => /\ \A name \in SttNames :
                    last.result = get_price(LastResponse, LastProvider, name)
              /\ last.result.ok
                 => last.result.value =
                       from_tokens(
                           OpenAI_get_pricing(StripDate(LastResponse.model),
                                              LastResponse.service_tier).value,
                           LastResponse.usage.input_tokens
                              - LastResponse.usage.input_tokens_details.cached_tokens,
                           LastResponse.usage.input_tokens_details.cached_tokens,
                           LastResponse.usage.output_tokens)
        /\ ("model" \notin LastResponse.attrs /\ last.result.ok)
           => /\ LastSttName # NoneName
              /\ last.result.value =
                    from_duration(
                        OpenAI_get_pricing(StripDate(LastSttName), "default").value,
                        LastResponse.usage.seconds)

\* A response with a model attribute has been priced by its tokens although
\* the caller named a model billed by the second.
C28_Witness ==
    /\ LastIsOpenAI
    /\ "model" \in LastResponse.attrs
    /\ LastSttName = whisper_1
    /\ last.result.ok
    /\ last.result.value.input_pricing
       = Lookup(PRICINGS[LastResponse.model], "default").input
    /\ last.result.value.output_tokens = LastResponse.usage.output_tokens
    /\ FPos(last.result.value.output_price)

\* A record without a model attribute has been priced by its seconds.
C28_WitnessSeconds ==
    /\ LastIsOpenAI
    /\ "model" \notin LastResponse.attrs
    /\ LastSttName = whisper_1
    /\ last.result.ok
    /\ last.result.value.total_price = last.result.value.input_price
    /\ FPos(last.result.value.input_price)
    /\ last.result.value.output_tokens = 0

-----------------------------------------------------------------------------
(* openAI_requests/_STT_caller.py *)

\* valid_models of __init__ and of _transcribe_with_local_model
valid_models == {"large", "turbo"}

\* The models _transcribe_with_openai_api accepts.
api_models == {"whisper-1", "gpt-4o-mini-transcribe", "gpt-4o-transcribe"}

\* `x or default` for x a str or None
OrStr(x, default) == IF x = NoneStr \/ x = "" THEN default ELSE x

\* What whisper.load_model(name) returns: the checkpoint of that name.
Checkpoint(name) == [checkpoint |-> name]

\* The attributes of an OpenAISTTCaller; last_duration is None (FALSE) or a
\* measured time (TRUE).
STTCaller(use_api, model, loaded_model_name, last_duration) ==
    [constructed |-> TRUE, use_api |-> use_api, model |-> model,
     _loaded_model_name |-> loaded_model_name, last_duration |-> last_duration]

LocalModelMessage(model) ==
    [text |-> "not supported for local Whisper", model |-> model]

\* OpenAISTTCaller.__init__; load_ok says whether whisper.load_model returns.
STT_init(use_api, model, load_ok) ==
    IF use_api
    THEN Return(STTCaller(TRUE, None, NoneStr, FALSE))
    ELSE IF OrStr(model, "turbo") \notin valid_models
    THEN Raise("ValueError", LocalModelMessage(OrStr(model, "turbo")))
    ELSE IF ~load_ok
    THEN Raise("RuntimeError", [text |-> "load_model"])
    ELSE Return(STTCaller(FALSE, Checkpoint(OrStr(model, "turbo")),
                          OrStr(model, "turbo"), FALSE))

\* transcribe_params of _transcribe_with_local_model
TranscribeParams(language, task) ==
    IF language = NoneStr \/ language = ""
    THEN [audio |-> "audio_path", task |-> task]
    ELSE [audio |-> "audio_path", task |-> task, language |-> language]

\* _transcribe_with_local_model from `result = self.model.transcribe(...)` on;
\* run_ok says whether that call returns.
RunLocal(self, loaded, language, task, run_ok) ==
    [self |-> self, loaded |-> loaded,
     result |-> IF run_ok
                THEN Return([by |-> self.model,
                             params |-> TranscribeParams(language, task)])
                ELSE Raise("RuntimeError", [text |-> "transcribe"])]

\* A faulty _transcribe_with_local_model that loads the requested model
\* before it validates the name; C29 must tell it from the code.
LocalTranscribe_loads_first(self, model, language, task, load_ok, run_ok) ==
    IF model # NoneStr /\ model # self._loaded_model_name /\ ~load_ok
    THEN [self |-> self, loaded |-> FALSE,
          result |-> Raise("RuntimeError", [text |-> "load_model"])]
    ELSE IF model # NoneStr /\ model \notin valid_models
    THEN [self |-> [self EXCEPT !.model = Checkpoint(model),
                                !._loaded_model_name = model],
          loaded |-> TRUE,
          result |-> Raise("ValueError", LocalModelMessage(model))]
    ELSE IF model # NoneStr /\ model # self._loaded_model_name
    THEN RunLocal([self EXCEPT !.model = Checkpoint(model),
                               !._loaded_model_name = model],
                  TRUE, language, task, run_ok)
    ELSE RunLocal(self, FALSE, language, task, run_ok)

\* OpenAISTTCaller._transcribe_with_local_model: the attributes it leaves,
\* whether it called load_model with success, and how it ends.
LocalTranscribe(self, model, language, task, load_ok, run_ok) ==
    IF model # NoneStr /\ model \notin valid_models
    THEN [self |-> self, loaded |-> FALSE,
          result |-> Raise("ValueError", LocalModelMessage(model))]
    ELSE IF model # NoneStr /\ model # self._loaded_model_name
    THEN IF ~load_ok
         THEN [self |-> self, loaded |-> FALSE,
               result |-> Raise("RuntimeError", [text |-> "load_model"])]
         ELSE RunLocal([self EXCEPT !.model = Checkpoint(model),
                                    !._loaded_model_name = model],
                       TRUE, language, task, run_ok)
    ELSE RunLocal(self, FALSE, language, task, run_ok)

\* request_params of _transcribe_with_openai_api, with the defaults of
\* transcribe for response_format and timestamp_granularities
ApiRequestParams(model, language) ==
    IF language = NoneStr \/ language = ""
    THEN [model |-> model, file |-> "audio_path",
          response_format |-> "verbose_json",
          timestamp_granularities |-> <<"segment">>]
    ELSE [model |-> model, file |-> "audio_path",
          response_format |-> "verbose_json",
          timestamp_granularities |-> <<"segment">>, language |-> language]

\* OpenAISTTCaller._transcribe_with_openai_api; run_ok says whether the
\* request returns.
ApiTranscribe(self, model, language, run_ok) ==
    [self |-> self, loaded |-> FALSE,
     result |-> IF model \notin api_models
                THEN Raise("ValueError",
                           [text |-> "not supported for OpenAI API", model |-> model])
                ELSE IF run_ok
                THEN Return([by |-> "api", params |-> ApiRequestParams(model, language)])
                ELSE Raise("APIError", [text |-> "transcriptions.create"])]

\* OpenAISTTCaller.transcribe after the audio file was found: the branch, then
\* the `finally` that sets last_duration.
TimedTranscribe(self, model, language, task, load_ok, run_ok) ==
    [(IF self.use_api
      THEN ApiTranscribe(self, OrStr(model, "whisper-1"), language, run_ok)
      ELSE LocalTranscribe(self, model, language, task, load_ok, run_ok))
     EXCEPT !.self.last_duration = TRUE]

\* OpenAISTTCaller.transcribe
STT_transcribe(self, exists, model, language, task, load_ok, run_ok) ==
    IF ~exists
    THEN [self |-> self, loaded |-> FALSE,
          result |-> Raise("FileNotFoundError", [text |-> "Audio file not found"])]
    ELSE TimedTranscribe(self, model, language, task, load_ok, run_ok)

\* The model arguments of the callers, None among them.
ModelArguments == {NoneStr, "", "large", "turbo", "base", "whisper-1"}

Languages == {NoneStr, "fr"}

Tasks == {"transcribe", "translate"}

\* caller = OpenAISTTCaller(use_api=use_api, model=model)
Construct(use_api, model, load_ok) ==
    /\ ~stt.constructed
    /\ stt' = IF STT_init(use_api, model, load_ok).ok
              THEN STT_init(use_api, model, load_ok).value ELSE stt
    /\ last' = [op |-> "OpenAISTTCaller", args |-> <<use_api, model>>,
                result |-> STT_init(use_api, model, load_ok)]
    /\ UNCHANGED <<tables, prices, folded, threads>>

\* caller.transcribe(audio_path, model=model, language=language, task=task)
Transcribe(exists, model, language, task, load_ok, run_ok) ==
    /\ stt.constructed
    /\ stt' = STT_transcribe(stt, exists, model, language, task, load_ok, run_ok).self
    /\ last' = [op |-> "transcribe", args |-> <<model, language, task, exists>>,
                before |-> stt,
                loaded |-> STT_transcribe(stt, exists, model, language, task, load_ok, run_ok).loaded,
                result |-> STT_transcribe(stt, exists, model, language, task, load_ok, run_ok).result]
    /\ UNCHANGED <<tables, prices, folded, threads>>

NextSTT ==
    \/ \E use_api \in BOOLEAN, model \in ModelArguments, load_ok \in BOOLEAN :
          Construct(use_api, model, load_ok)
    \/ \E exists \in BOOLEAN, model \in ModelArguments, language \in Languages, task \in Tasks, load_ok \in BOOLEAN, run_ok \in BOOLEAN :
          Transcribe(exists, model, language, task, load_ok, run_ok)

SpecSTT == Init /\ [][NextSTT]_vars

\* The last call was transcribe on a caller in local mode.
LastIsLocalTranscribe ==
    /\ last.op = "transcribe"
    /\ ~last.before.use_api

\* C29: a caller in local mode always has _loaded_model_name "large" or
\* "turbo" and holds in self.model the checkpoint of that name; a transcribe
\* call rejected for an unsupported model leaves both as they were; load_model
\* is called, and self.model replaced, only for a supported model other than
\* the one loaded before the call.
C29_LoadedNameNamesModel ==
    /\ (stt.constructed /\ ~stt.use_api)
       => /\ stt._loaded_model_name \in {"large", "turbo"}
          /\ stt.model = Checkpoint(stt._loaded_model_name)
    /\ LastIsLocalTranscribe
       => /\ (last.args[1] \notin {NoneStr, "large", "turbo"})
             => /\ ~last.result.ok
                /\ stt.model = last.before.model
                /\ stt._loaded_model_name = last.before._loaded_model_name
          /\ (last.loaded \/ stt.model # last.before.model
                \/ stt._loaded_model_name # last.before._loaded_model_name)
             => /\ last.args[1] \in {"large", "turbo"}
                /\ last.args[1] # last.before._loaded_model_name
                /\ stt._loaded_model_name = last.args[1]

\* A local caller that holds the large checkpoint has rejected a transcribe
\* call of an existing file for the unsupported model "base".
C29_Witness ==
    /\ LastIsLocalTranscribe
    /\ last.args[1] = "base"
    /\ last.args[4]
    /\ last.result = Raise("ValueError", LocalModelMessage("base"))
    /\ stt._loaded_model_name = "large"
    /\ stt.model = Checkpoint("large")

\* A local caller has reloaded: it held turbo and was asked for large.
C29_WitnessReload ==
    /\ LastIsLocalTranscribe
    /\ last.loaded
    /\ last.before._loaded_model_name = "turbo"
    /\ stt._loaded_model_name = "large"
    /\ last.result.ok

-----------------------------------------------------------------------------
(* openAI_requests/_LLM_API_caller.py *)

\* The models OpenAILLMCaller.response accepts.
llm_models == {gpt_4_1_nano, gpt_4_1_mini, gpt_5_mini, gpt_5_nano}

\* s.startswith(prefix)
StartsWith(s, prefix) ==
    /\ Len(s) >= Len(prefix)
    /\ SubSeq(s, 1, Len(prefix)) = prefix

\* An argument that is not None.
Some(v) == [v |-> v]

\* The keys of the dict from which request_params is filtered.
RequestKeys == {"model", "include", "input", "instructions", "max_output_tokens", "max_tool_calls", "metadata", "parallel_tool_calls", "prompt", "prompt_cache_key", "safety_identifier", "service_tier", "store", "stream", "stream_options", "temperature", "text", "tool_choice", "tools", "top_logprobs"}

\* The default of the parameter `text`.
DefaultText == [format |-> [type |-> "text"], verbosity |-> "low"]

\* The arguments of response(model=model) with every other parameter at the
\* default of the signature.
DefaultArguments(model) ==
    [k \in RequestKeys |->
        IF k = "model" THEN Some(model)
        ELSE IF k = "service_tier" THEN Some("default")
        ELSE IF k \in {"store", "stream"} THEN Some(FALSE)
        ELSE IF k = "temperature" THEN Some(FZero)
        ELSE IF k = "text" THEN Some(DefaultText)
        ELSE None]

\* The arguments after `if include is None: include = []`.
WithInclude(args) ==
    [args EXCEPT !.include = IF @ = None THEN Some(<<>>) ELSE @]

\* The condition of the dict comprehension:
\* (value is not None) and (key != 'temperature' or model.startswith('gpt-5'))
KeepsKey(key, value, model) ==
    /\ value # None
    /\ key # "temperature" \/ StartsWith(model, gpt_5)

\* request_params
RequestParams(args) ==
    [k \in {key \in RequestKeys : KeepsKey(key, args[key], args.model.v)} |-> args[k].v]

\* OpenAILLMCaller.response: the request it builds, None when it builds none,
\* and how the call ends; create_ok says whether responses.create returns.
LLM_response(args, create_ok) ==
    IF args.model.v \notin llm_models
    THEN [request |-> None,
          result |-> Raise("ValueError", [text |-> "not supported for LLM mode",
                                          model |-> args.model.v])]
    ELSE [request |-> RequestParams(WithInclude(args)),
          result |-> IF create_ok
                     THEN Return([response_to |-> RequestParams(WithInclude(args))])
                     ELSE Raise("APIError", [text |-> "responses.create"])]

\* The arguments the callers pass.
LLMModels == llm_models \cup {gpt_5_pro, gpt_4_1}

Temperatures == {Some(FZero), Some(Dec(7, 10)), None}

ServiceTiers == {Some("default"), None}

Includes == {None, Some(<<"message.output_text.logprobs">>)}

Inputs == {None, Some("hello")}

MaxOutputTokens == {None, Some(16)}

\* caller.response(model=..., include=..., input=..., max_output_tokens=...,
\* service_tier=..., temperature=...)
Response(model, include, input, max_output_tokens, service_tier, temperature, create_ok) ==
    /\ last' = [op |-> "response",
                args |-> [DefaultArguments(model) EXCEPT
                             !.include = include, !.input = input,
                             !.max_output_tokens = max_output_tokens,
                             !.service_tier = service_tier,
                             !.temperature = temperature],
                request |-> LLM_response(
                                [DefaultArguments(model) EXCEPT
                                    !.include = include, !.input = input,
                                    !.max_output_tokens = max_output_tokens,
                                    !.service_tier = service_tier,
                                    !.temperature = temperature],
                                create_ok).request,
                result |-> LLM_response(
                               [DefaultArguments(model) EXCEPT
                                   !.include = include, !.input = input,
                                   !.max_output_tokens = max_output_tokens,
                                   !.service_tier = service_tier,
                                   !.temperature = temperature],
                               create_ok).result]
    /\ UNCHANGED <<tables, prices, folded, threads, stt>>

NextLLM ==
    \E model \in LLMModels, include \in Includes, input \in Inputs, max_output_tokens \in MaxOutputTokens, service_tier \in ServiceTiers, temperature \in Temperatures, create_ok \in BOOLEAN :
        Response(model, include, input, max_output_tokens, service_tier, temperature, create_ok)

SpecLLM == Init /\ [][NextLLM]_vars

\* C30: response builds no request for a model outside the supported list; for
\* a supported model the request has the temperature exactly when the model is
\* not of the gpt-5 family (and a temperature was given), and every other
\* parameter exactly when its value, after the default of include, is not None.
C30_TemperatureOnlyOutsideGpt5 ==
    last.op = "response" =>
        IF last.args.model.v \notin llm_models
        THEN last.request = None /\ ~last.result.ok
        ELSE /\ last.request # None
             /\ "temperature" \in DOMAIN last.request
                <=> (last.args.temperature # None
                     /\ ~StartsWith(last.args.model.v, gpt_5))
             /\ \A k \in RequestKeys \ {"temperature"} :
                   k \in DOMAIN last.request <=> WithInclude(last.args)[k] # None

====
